---- MODULE Spec2Model ----
(***************************************************************************)
(* Verification model of the algorithm kernel of UrbanGenAI:               *)
(*   planning_api/algorithms/mathematics.py      (interval tree)           *)
(*   planning_api/algorithms/graph_algorithms.py (Dijkstra, centrality)    *)
(*   planning_api/geometry/clustering.py         (agglomerative clustering)*)
(***************************************************************************)
EXTENDS Integers, Sequences, FiniteSets, TLC

VARIABLES
    tree,       \* the IntervalTree object: [root, count, heap]
    stored,     \* history: (low, high, id) triples inserted with True and not deleted with True
    hadDelete,  \* history: some delete_interval call has been made
    lastOp,     \* the last IntervalTree call and what it returned
    raises,     \* history: number of IntervalTree calls that raised
    graph,      \* the GraphAdapter: [vertices, edges]
    source,     \* the source argument of DijkstraShortestPaths
    dj_pc,      \* where the DijkstraShortestPaths constructor is
    distances,  \* DijkstraShortestPaths._distances
    predecessors, \* DijkstraShortestPaths._predecessors
    queue,      \* DijkstraShortestPaths._min_priority_queue
    cen_pc,     \* where the CalculateCentrality constructor is
    centrality, \* the CalculateCentrality object: [betweenness, total_depths, node_counts]
    cen_next,   \* _compute_sequential: position of the for loop in _vertices
    futures,    \* _compute_parallel: state of the future of every source
    results,    \* _compute_parallel: what each finished future holds
    overtaken,  \* history: a future was consumed before one submitted earlier
    clu_pc,     \* where AgglomerativeClustering.run is
    distance_matrix, \* argument of run: distance_matrix[i][j], 0-based
    diameter,   \* argument of run
    clusters,   \* the MultiClusters container: the set of active Cluster objects
    matrix,     \* the DissimilarityMatrix: [_distance_matrix, _diameter]
    new_cluster_index,  \* local of _build_hierarchical_clustering
    mrg_pc,     \* where merge_overlapping_intervals is
    intervals,  \* argument of merge_overlapping_intervals
    sorted_intervals,   \* local of merge_overlapping_intervals
    merged_intervals,   \* merged, the local that merge_overlapping_intervals returns
    mrg_next,   \* position of the for loop in sorted_intervals
    br_pc,      \* where BrepAddOn.get_area is
    brep,       \* argument of get_area: the faces, each [outer_loop, inner_loops]
    total_area, \* local of get_area, returned at the end
    face_area,  \* local of get_area
    br_face,    \* position of the for loop in brep.faces
    br_inner,   \* position of the for loop in face.inner_loops
    poly_pc,    \* where polyline_from_vertices is
    flattened_vertices, \* argument of polyline_from_vertices
    poly_points,    \* points, the local the returned Polyline is made of
    poly_i,     \* the loop variable i of polyline_from_vertices
    pq,         \* a MinPriorityQueue object used on its own
    pq_live,    \* history: the items in pq and the priority each was last given
    pq_last,    \* the last call on pq, what it returned and the items before it
    diameters,  \* argument of run_multiple_diameters, then its sorted distinct values
    md_results, \* results, the list of snapshots run_multiple_diameters returns
    md_next,    \* position of the for loop in diameters
    md_created, \* history: the ids of the clusters created, in order of creation
    css_pc,     \* where the CentralitySingleSource constructor is
    css_graph,  \* argument graph of CentralitySingleSource
    css_source, \* argument source of CentralitySingleSource
    css_radius, \* argument radius of CentralitySingleSource
    css,        \* the CentralitySingleSource object: _predecessors, _distances, _stack, ...
    css_current,    \* current_vertex_index of _dijkstra
    css_preds,  \* predecessors, the local of _dijkstra
    css_edges,  \* outgoing_edges, the local of _dijkstra
    css_k,      \* position of the for loop in outgoing_edges
    css_result, \* the attributes the finished constructor leaves
    cps_pc,     \* where check_polyline_self is
    cps_points, \* polyline.points of the argument of check_polyline_self
    cps_i,      \* the loop variable i of check_polyline_self
    cps_j,      \* the next value of range((i + 2) % len(lines), k, 1)
    cps_result, \* what check_polyline_self returned
    cps_tested, \* history: the pairs (i, j) handed to line_line
    split_pc,     \* where split_by_line_for_outer_loops is
    split_curves, \* face.outer_loop.curves, each curve as its list of points
    split_cutter, \* the argument cutter
    split_result, \* the list split_by_line_for_outer_loops returned
    vor_pc,       \* where Voronoi.__init__ is
    sites,        \* self.sites: each site with its x, y and cell
    vor_bounds,   \* self.bounds
    vor_i,        \* how many sites have been pushed
    event_queue,  \* the heapq list of events, each the index of its site
    beach_root,   \* beach_line.root: a list of the arc, empty when root is None
    vor_edges,    \* the list edges
    mc_pc,        \* where Polyline.make_closed is
    mc_points,    \* self.points
    mc_tolerance, \* the argument tolerance
    mc_result,    \* what make_closed returned
    mc_before     \* history: self.points when make_closed was called

treeVars == <<tree, stored, hadDelete, lastOp, raises>>
djVars == <<graph, source, dj_pc, distances, predecessors, queue>>

cenVars == <<cen_pc, centrality, cen_next, futures, results, overtaken>>

cluVars == <<clu_pc, distance_matrix, diameter, clusters, matrix, new_cluster_index>>

mrgVars == <<mrg_pc, intervals, sorted_intervals, merged_intervals, mrg_next>>

brepVars == <<br_pc, brep, total_area, face_area, br_face, br_inner>>

\* the state of the operations outside the four kernel classes
polyVars == <<poly_pc, flattened_vertices, poly_points, poly_i>>
pqVars == <<pq, pq_live, pq_last>>
mdVars == <<diameters, md_results, md_next, md_created>>
cssVars == <<css_pc, css_graph, css_source, css_radius, css, css_current, css_preds,
             css_edges, css_k, css_result>>
cpsVars == <<cps_pc, cps_points, cps_i, cps_j, cps_result, cps_tested>>
\* the state of the geometry operations
splitVars == <<split_pc, split_curves, split_cutter, split_result>>
vorVars == <<vor_pc, sites, vor_bounds, vor_i, event_queue, beach_root, vor_edges>>
mcVars == <<mc_pc, mc_points, mc_tolerance, mc_result, mc_before>>
geoVars == <<cpsVars, splitVars, vorVars, mcVars>>
opsVars == <<mrgVars, brepVars, polyVars, pqVars, mdVars, cssVars, geoVars>>

vars == <<tree, stored, hadDelete, lastOp, raises,
          graph, source, dj_pc, distances, predecessors, queue,
          cen_pc, centrality, cen_next, futures, results, overtaken,
          clu_pc, distance_matrix, diameter, clusters, matrix, new_cluster_index,
          mrg_pc, intervals, sorted_intervals, merged_intervals, mrg_next,
          br_pc, brep, total_area, face_area, br_face, br_inner,
          poly_pc, flattened_vertices, poly_points, poly_i,
          pq, pq_live, pq_last,
          diameters, md_results, md_next, md_created,
          css_pc, css_graph, css_source, css_radius, css, css_current, css_preds,
          css_edges, css_k, css_result,
          cps_pc, cps_points, cps_i, cps_j, cps_result, cps_tested,
          split_pc, split_curves, split_cutter, split_result,
          vor_pc, sites, vor_bounds, vor_i, event_queue, beach_root, vor_edges,
          mc_pc, mc_points, mc_tolerance, mc_result, mc_before>>

nonTreeVars == <<djVars, cenVars, cluVars, opsVars>>
nonDjVars == <<treeVars, cenVars, cluVars, opsVars>>
nonCenVars == <<treeVars, source, dj_pc, distances, predecessors, queue, cluVars, opsVars>>
nonCluVars == <<treeVars, djVars, cenVars, opsVars>>
kernelVars == <<treeVars, djVars, cenVars, cluVars>>
nonMrgVars == <<kernelVars, brepVars, polyVars, pqVars, mdVars, cssVars, geoVars>>
nonBrepVars == <<kernelVars, mrgVars, polyVars, pqVars, mdVars, cssVars, geoVars>>
nonPolyVars == <<kernelVars, mrgVars, brepVars, pqVars, mdVars, cssVars, geoVars>>
nonMdVars == <<treeVars, djVars, cenVars, mrgVars, brepVars, polyVars, pqVars, cssVars, geoVars>>
nonGeoVars == <<kernelVars, mrgVars, brepVars, polyVars, pqVars, mdVars, cssVars>>
nonCpsVars == <<nonGeoVars, splitVars, vorVars, mcVars>>
nonSplitVars == <<nonGeoVars, cpsVars, vorVars, mcVars>>
nonVorVars == <<nonGeoVars, cpsVars, splitVars, mcVars>>
nonMcVars == <<nonGeoVars, cpsVars, splitVars, vorVars>>
nonCssVars == <<kernelVars, mrgVars, brepVars, polyVars, pqVars, mdVars, geoVars>>
nonPqVars == <<kernelVars, mrgVars, brepVars, polyVars, mdVars, cssVars, geoVars>>

(***************************************************************************)
(* Bounds                                                                  *)
(***************************************************************************)
MaxCoord == 1       \* interval bounds are drawn from 0..MaxCoord
MaxId == 2          \* interval ids are drawn from 0..MaxId
MaxNodes == 4       \* the tree holds at most MaxNodes RBTreeNode objects
MaxRaises == 1      \* a tree is used until MaxRaises of its calls have raised

(***************************************************************************)
(* mathematics.py : UInterval, IntervalNode                                *)
(***************************************************************************)
Null == 0
NegInf == -1        \* float('-inf') of _update_tree; below every coordinate
RED == "RED"
BLACK == "BLACK"
allow_duplicates == FALSE

\* UInterval(low, high); __post_init__ accepts only low <= high
UInterval == {iv \in [low : 0..MaxCoord, high : 0..MaxCoord] : iv.low <= iv.high}

is_overlap(a, b) == a.low <= b.high /\ b.low <= a.high

IntervalNode(interval, node_id) ==
    [low |-> interval.low, high |-> interval.high, id |-> node_id, max |-> interval.high]

IntervalNode_lt(a, b) ==
    IF a.low # b.low THEN a.low < b.low ELSE a.id < b.id

IntervalNode_eq(a, b) == a.low = b.low /\ a.high = b.high /\ a.id = b.id

\* mutant: every new node is BLACK
RBTreeNode_black(value, color) ==
    [value |-> value, color |-> BLACK, left |-> Null, right |-> Null, parent |-> Null]

RBTreeNode(value, color) ==
    [value |-> value, color |-> color, left |-> Null, right |-> Null, parent |-> Null]

Max2(a, b) == IF a >= b THEN a ELSE b

(***************************************************************************)
(* mathematics.py : RBTree.  A tree value t is [root, count, heap, err];   *)
(* heap maps the address of every RBTreeNode object to its fields, err     *)
(* records an exception raised inside the call.                            *)
(***************************************************************************)
_rotate_left(t, n) ==
    LET h == t.heap
        rc == h[n].right
        rl == h[rc].left
        np == h[n].parent
        h1 == [h EXCEPT ![n].right = rl]
        h2 == IF rl # Null THEN [h1 EXCEPT ![rl].parent = n] ELSE h1
        h3 == [h2 EXCEPT ![rc].parent = np]
        h4 == IF np = Null THEN h3
              ELSE IF n = h3[np].left THEN [h3 EXCEPT ![np].left = rc]
              ELSE [h3 EXCEPT ![np].right = rc]
        h5 == [h4 EXCEPT ![rc].left = n, ![n].parent = rc]
    IN [t EXCEPT !.root = IF np = Null THEN rc ELSE t.root, !.heap = h5]

_rotate_right(t, n) ==
    LET h == t.heap
        lc == h[n].left
        lr == h[lc].right
        np == h[n].parent
        h1 == [h EXCEPT ![n].left = lr]
        h2 == IF lr # Null THEN [h1 EXCEPT ![lr].parent = n] ELSE h1
        h3 == [h2 EXCEPT ![lc].parent = np]
        h4 == IF np = Null THEN h3
              ELSE IF n = h3[np].right THEN [h3 EXCEPT ![np].right = lc]
              ELSE [h3 EXCEPT ![np].left = lc]
        h5 == [h4 EXCEPT ![lc].right = n, ![n].parent = lc]
    IN [t EXCEPT !.root = IF np = Null THEN lc ELSE t.root, !.heap = h5]

RECURSIVE _fix_insertion(_, _)

\* the tail of the loop body when the parent is a left child and the uncle is
\* not RED: recolour parent and grandparent of n1, rotate right, loop again
_fix_under_left(t1, n1) ==
    LET p1 == t1.heap[n1].parent
        g1 == t1.heap[p1].parent
    IN _fix_insertion(_rotate_right([t1 EXCEPT !.heap[p1].color = BLACK,
                                               !.heap[g1].color = RED], g1), n1)

\* the mirrored tail when the parent is a right child
_fix_under_right(t1, n1) ==
    LET p1 == t1.heap[n1].parent
        g1 == t1.heap[p1].parent
    IN _fix_insertion(_rotate_left([t1 EXCEPT !.heap[p1].color = BLACK,
                                              !.heap[g1].color = RED], g1), n1)

_fix_insertion(t, n) ==
    LET h == t.heap IN
    IF n = t.root \/ h[h[n].parent].color # RED
    THEN [t EXCEPT !.heap[t.root].color = BLACK]
    ELSE
        LET p == h[n].parent
            g == h[p].parent
        IN
        IF g = Null
        THEN [t EXCEPT !.err = TRUE]    \* node.parent.parent is None: AttributeError
        ELSE IF p = h[g].left
        THEN
            LET uncle == h[g].right IN
            IF uncle # Null /\ h[uncle].color = RED
            THEN _fix_insertion([t EXCEPT !.heap[p].color = BLACK,
                                          !.heap[uncle].color = BLACK,
                                          !.heap[g].color = RED], g)
            ELSE IF n = h[p].right
            THEN _fix_under_left(_rotate_left(t, p), p)
            ELSE _fix_under_left(t, n)
        ELSE
            LET uncle == h[g].left IN
            IF uncle # Null /\ h[uncle].color = RED
            THEN _fix_insertion([t EXCEPT !.heap[p].color = BLACK,
                                          !.heap[uncle].color = BLACK,
                                          !.heap[g].color = RED], g)
            ELSE IF n = h[p].left
            THEN _fix_under_right(_rotate_right(t, p), p)
            ELSE _fix_under_right(t, n)

\* the while loop of RBTree.insert: the parent to attach under, or a duplicate
RECURSIVE InsertionPoint(_, _, _)
InsertionPoint(h, current, value) ==
    IF IntervalNode_lt(value, h[current].value)
    THEN IF h[current].left = Null THEN [dup |-> FALSE, parent |-> current]
         ELSE InsertionPoint(h, h[current].left, value)
    ELSE IF IntervalNode_lt(h[current].value, value) \/ allow_duplicates
    THEN IF h[current].right = Null THEN [dup |-> FALSE, parent |-> current]
         ELSE InsertionPoint(h, h[current].right, value)
    ELSE [dup |-> TRUE, parent |-> Null]

\* address of a fresh RBTreeNode object
NewAddress(h) == CHOOSE a \in 1..(Cardinality(DOMAIN h) + 1) : a \notin DOMAIN h

\* self._count += 1; return True, unless _fix_insertion raised
_count_inserted(t1) ==
    IF t1.err THEN t1 ELSE [t1 EXCEPT !.count = @ + 1, !.ret = TRUE]

\* the new RED node a is linked under parent and the tree is fixed
_attach(t, value, parent, a) ==
    LET h1 == t.heap @@ (a :> [RBTreeNode(value, RED) EXCEPT !.parent = parent])
        h2 == IF IntervalNode_lt(value, h1[parent].value)
              THEN [h1 EXCEPT ![parent].left = a]
              ELSE [h1 EXCEPT ![parent].right = a]
    IN _count_inserted(_fix_insertion([t EXCEPT !.heap = h2], a))

\* RBTree.insert below a non-empty root, after the while loop returned ip
_insert_at(t, value, ip) ==
    IF ip.dup THEN [t EXCEPT !.ret = FALSE]
    ELSE _attach(t, value, ip.parent, NewAddress(t.heap))

\* RBTree.insert; ret is the returned bool
RBTree_insert(t, value) ==
    IF t.root = Null
    THEN LET a == NewAddress(t.heap) IN
         [t EXCEPT !.root = a, !.count = @ + 1,
                   !.heap = (a :> RBTreeNode(value, BLACK)),
                   !.ret = TRUE]
    ELSE _insert_at(t, value, InsertionPoint(t.heap, t.root, value))

RECURSIVE _find_node(_, _, _)
_find_node(h, current, value) ==
    IF current = Null THEN Null
    ELSE IF IntervalNode_eq(value, h[current].value) THEN current
    ELSE IF IntervalNode_lt(value, h[current].value) THEN _find_node(h, h[current].left, value)
    ELSE _find_node(h, h[current].right, value)

RECURSIVE _find_min(_, _)
_find_min(h, n) == IF h[n].left # Null THEN _find_min(h, h[n].left) ELSE n

_replace_node(t, old_node, new_node) ==
    LET h == t.heap
        op == h[old_node].parent
        h1 == IF op = Null THEN h
              ELSE IF old_node = h[op].left THEN [h EXCEPT ![op].left = new_node]
              ELSE [h EXCEPT ![op].right = new_node]
        h2 == IF new_node # Null THEN [h1 EXCEPT ![new_node].parent = op] ELSE h1
    IN [t EXCEPT !.root = IF op = Null THEN new_node ELSE t.root, !.heap = h2]

RECURSIVE _delete_node(_, _)
_delete_node(t, n) ==
    LET h == t.heap IN
    IF h[n].left = Null /\ h[n].right = Null
    THEN IF h[n].parent = Null THEN [t EXCEPT !.root = Null]
         ELSE IF n = h[h[n].parent].left THEN [t EXCEPT !.heap[h[n].parent].left = Null]
         ELSE [t EXCEPT !.heap[h[n].parent].right = Null]
    ELSE IF h[n].left = Null THEN _replace_node(t, n, h[n].right)
    ELSE IF h[n].right = Null THEN _replace_node(t, n, h[n].left)
    ELSE LET successor == _find_min(h, h[n].right) IN
         _delete_node([t EXCEPT !.heap[n].value = h[successor].value], successor)

\* addresses of the nodes reachable from n, in preorder
RECURSIVE Preorder(_, _)
Preorder(h, n) ==
    IF n = Null THEN <<>>
    ELSE <<n>> \o Preorder(h, h[n].left) \o Preorder(h, h[n].right)

\* Object identity carries no information: objects no longer referenced from
\* the root are dropped and the live ones are numbered in preorder.
Collect(t) ==
    LET ord == Preorder(t.heap, t.root)
        pos(a) == IF a = Null THEN Null ELSE CHOOSE k \in 1..Len(ord) : ord[k] = a
    IN [t EXCEPT !.root = pos(t.root),
                 !.heap = [k \in 1..Len(ord) |->
                              [t.heap[ord[k]] EXCEPT !.left = pos(@), !.right = pos(@),
                                                     !.parent = pos(@)]]]

\* RBTree.remove after _find_node returned node
_remove_found(t, node) ==
    IF node = Null THEN [t EXCEPT !.ret = FALSE]
    ELSE [Collect(_delete_node(t, node)) EXCEPT !.count = @ - 1, !.ret = TRUE]

RBTree_remove(t, value) == _remove_found(t, _find_node(t.heap, t.root, value))

(***************************************************************************)
(* mathematics.py : IntervalTree                                           *)
(***************************************************************************)
\* _update_tree: the heap with every max recomputed, and the max of the subtree
RECURSIVE _update_tree(_, _)
_update_tree(h, node) ==
    IF node = Null THEN [heap |-> h, max |-> NegInf]
    ELSE
        LET l == _update_tree(h, h[node].left)
            r == _update_tree(l.heap, h[node].right)
            high == h[node].value.high
            current_max == Max2(high,
                             Max2(IF l.max # NegInf THEN l.max ELSE high,
                                  IF r.max # NegInf THEN r.max ELSE high))
        IN [heap |-> [r.heap EXCEPT ![node].value.max = current_max], max |-> current_max]

\* if self._tree.insert(node): self._update_tree(self._tree._root)
_update_inserted(t1) ==
    IF ~t1.err /\ t1.ret
    THEN [t1 EXCEPT !.heap = _update_tree(t1.heap, t1.root).heap]
    ELSE t1

insert_node(t, node) == _update_inserted(RBTree_insert(t, node))

insert_interval(t, interval, node_id) == insert_node(t, IntervalNode(interval, node_id))

\* if self._tree.remove(node) and self._tree._root:
\*     self._update_tree(self._tree._root)
_update_removed(t1) ==
    IF t1.ret /\ t1.root # Null
    THEN [t1 EXCEPT !.heap = _update_tree(t1.heap, t1.root).heap]
    ELSE t1

\* mutant: max values are not recomputed after a removal
delete_node_stale(t, node) == RBTree_remove(t, node)

delete_node(t, node) == _update_removed(RBTree_remove(t, node))

delete_interval(t, interval, node_id) == delete_node(t, IntervalNode(interval, node_id))

\* mutant: the left subtree is pruned with > instead of >=
RECURSIVE _search_overlaps_strict(_, _, _, _)
_search_overlaps_strict(h, target_node, current_node, result) ==
    LET cur == h[current_node]
        r1 == IF is_overlap(cur.value, target_node) THEN Append(result, cur.value) ELSE result
        r2 == IF cur.left # Null /\ h[cur.left].value.max > target_node.low
              THEN _search_overlaps_strict(h, target_node, cur.left, r1)
              ELSE r1
    IN IF cur.right # Null /\ h[cur.right].value.max >= target_node.low
          /\ cur.value.low <= target_node.high
       THEN _search_overlaps_strict(h, target_node, cur.right, r2)
       ELSE r2

RECURSIVE _search_overlaps_recursive(_, _, _, _)
_search_overlaps_recursive(h, target_node, current_node, result) ==
    LET cur == h[current_node]
        r1 == IF is_overlap(cur.value, target_node) THEN Append(result, cur.value) ELSE result
        r2 == IF cur.left # Null /\ h[cur.left].value.max >= target_node.low
              THEN _search_overlaps_recursive(h, target_node, cur.left, r1)
              ELSE r1
    IN IF cur.right # Null /\ h[cur.right].value.max >= target_node.low
          /\ cur.value.low <= target_node.high
       THEN _search_overlaps_recursive(h, target_node, cur.right, r2)
       ELSE r2

search_overlaps(t, target_node) ==
    IF t.root # Null THEN _search_overlaps_recursive(t.heap, target_node, t.root, <<>>)
    ELSE <<>>

search_overlapping_interval(t, interval) == search_overlaps(t, IntervalNode(interval, -1))

\* mutant: the descent goes right only when the left subtree ends at or before
\* the target's low
RECURSIVE FindFrom_strict(_, _, _)
FindFrom_strict(h, target_node, node) ==
    IF node = Null THEN <<>>
    ELSE IF is_overlap(h[node].value, target_node) THEN <<h[node].value>>
    ELSE IF h[node].left = Null THEN FindFrom_strict(h, target_node, h[node].right)
    ELSE IF h[h[node].left].value.max <= target_node.low
         THEN FindFrom_strict(h, target_node, h[node].right)
    ELSE FindFrom_strict(h, target_node, h[node].left)

\* the while loop of find_one_overlap from node on; <<>> is None, <<v>> the
\* value v returned
RECURSIVE FindFrom(_, _, _)
FindFrom(h, target_node, node) ==
    IF node = Null THEN <<>>
    ELSE IF is_overlap(h[node].value, target_node) THEN <<h[node].value>>
    ELSE IF h[node].left = Null THEN FindFrom(h, target_node, h[node].right)
    ELSE IF h[h[node].left].value.max < target_node.low
         THEN FindFrom(h, target_node, h[node].right)
    ELSE FindFrom(h, target_node, h[node].left)

find_one_overlap(t, target_node) == FindFrom(t.heap, target_node, t.root)

find_overlapping_interval(t, interval) == find_one_overlap(t, IntervalNode(interval, -1))

(***************************************************************************)
(* graph_algorithms.py : Edge, DirectedEdge, GraphAdapter                  *)
(***************************************************************************)
None == -1              \* Python's None where an item or a vertex is expected
INFINITY == 999         \* float('inf'); above every path weight of the model
NONE_PREDECESSOR == -1

\* Edge.__init__ and DirectedEdge.__init__ both set from_vertex and to_vertex
Edge(from_vertex, to_vertex, weight) ==
    [from_vertex |-> from_vertex, to_vertex |-> to_vertex, weight |-> weight, class |-> "Edge"]
DirectedEdge(from_vertex, to_vertex, weight) ==
    [from_vertex |-> from_vertex, to_vertex |-> to_vertex, weight |-> weight,
     class |-> "DirectedEdge"]
hasattr(edge, name) == name \in DOMAIN edge

GraphAdapter(vertices, edges) == [vertices |-> vertices, edges |-> edges]

has_vertex(g, vertex) == \E k \in 1..Len(g.vertices) : g.vertices[k] = vertex

\* GraphAdapter.__init__ builds _adjacency_map; outgoing_edges reads it
outgoing_edges(g, vertex) ==
    LET Listed(edge) ==
            IF hasattr(edge, "from_vertex") /\ hasattr(edge, "to_vertex")
            THEN edge.from_vertex = vertex
            ELSE edge.from_vertex = vertex \/ edge.to_vertex = vertex
    IN SelectSeq(g.edges, Listed)

has_edge(g, vertex1, vertex2) ==
    LET out == outgoing_edges(g, vertex1) IN
    \E k \in 1..Len(out) :
        IF hasattr(out[k], "to_vertex") THEN out[k].to_vertex = vertex2
        ELSE (IF vertex1 = out[k].from_vertex THEN out[k].to_vertex ELSE out[k].from_vertex)
                 = vertex2

\* {vertex: i for i, vertex in enumerate(vertices)}
nodes_to_indices(vertices) ==
    [v \in {vertices[k] : k \in 1..Len(vertices)} |->
        (CHOOSE k \in 1..Len(vertices) : vertices[k] = v) - 1]

(***************************************************************************)
(* graph_algorithms.py : MinPriorityQueue.  _heap is the set of entries    *)
(* [priority, count, item]; heapq pops the least (priority, count).        *)
(* _entry_map maps an item to the count of its entry.                      *)
(***************************************************************************)
MinPriorityQueue == [heap |-> {}, entry_map |-> <<>>, counter |-> 0]

is_empty(q) == q.heap = {}

EntryLess(a, b) ==
    a.priority < b.priority \/ (a.priority = b.priority /\ a.count < b.count)

heappop(heap) == CHOOSE e \in heap : \A o \in heap : o = e \/ EntryLess(e, o)

\* mutant: the old entry of the item stays in the heap unmarked
update_priority_keep(q, item, new_priority) ==
    IF item \in DOMAIN q.entry_map
    THEN [heap |-> q.heap \cup {[priority |-> new_priority, count |-> q.counter, item |-> item]},
          entry_map |-> [q.entry_map EXCEPT ![item] = q.counter],
          counter |-> q.counter + 1]
    ELSE q

update_priority(q, item, new_priority) ==
    IF item \in DOMAIN q.entry_map
    THEN [heap |-> {IF e.count = q.entry_map[item] THEN [e EXCEPT !.item = None] ELSE e :
                       e \in q.heap}
                   \cup {[priority |-> new_priority, count |-> q.counter, item |-> item]},
          entry_map |-> [q.entry_map EXCEPT ![item] = q.counter],
          counter |-> q.counter + 1]
    ELSE q

enqueue(q, item, priority) ==
    IF item \in DOMAIN q.entry_map THEN update_priority(q, item, priority)
    ELSE [heap |-> q.heap \cup {[priority |-> priority, count |-> q.counter, item |-> item]},
          entry_map |-> q.entry_map @@ (item :> q.counter),
          counter |-> q.counter + 1]

\* [queue, item, err]; err is IndexError("Priority queue is empty")
RECURSIVE dequeue_min(_)
dequeue_min(q) ==
    IF q.heap = {} THEN [queue |-> q, item |-> None, err |-> TRUE]
    ELSE LET e == heappop(q.heap)
             q1 == [q EXCEPT !.heap = q.heap \ {e}]
         IN IF e.item # None
            THEN [queue |-> [q1 EXCEPT !.entry_map =
                                 [i \in DOMAIN q.entry_map \ {e.item} |-> q.entry_map[i]]],
                  item |-> e.item, err |-> FALSE]
            ELSE dequeue_min(q1)

contains(q, item) ==
    /\ item \in DOMAIN q.entry_map
    /\ \E e \in q.heap : e.count = q.entry_map[item] /\ e.item # None

(***************************************************************************)
(* graph_algorithms.py : DijkstraShortestPaths                             *)
(***************************************************************************)
\* mutant: only the first edge is checked for a negative weight
HasNegativeWeight_first(g) == Len(g.edges) >= 1 /\ g.edges[1].weight < 0

HasNegativeWeight(g) == \E k \in 1..Len(g.edges) : g.edges[k].weight < 0

\* the body of the for loop of _dijkstra over outgoing_edges[k..]
RECURSIVE Relax(_, _, _, _, _)
Relax(st, idx, current_vertex_index, outgoing, k) ==
    IF k > Len(outgoing) THEN st
    ELSE
        LET edge == outgoing[k]
            adjacent_vertex == edge.to_vertex
            adjacent_index == idx[adjacent_vertex]
            delta == IF st.distances[current_vertex_index] # INFINITY
                     THEN st.distances[current_vertex_index] + edge.weight
                     ELSE INFINITY
            st1 == IF delta < st.distances[adjacent_index]
                   THEN [distances |-> [st.distances EXCEPT ![adjacent_index] = delta],
                         predecessors |-> [st.predecessors EXCEPT
                                              ![adjacent_index] = current_vertex_index],
                         queue |-> IF contains(st.queue, adjacent_vertex)
                                   THEN update_priority(st.queue, adjacent_vertex, delta)
                                   ELSE enqueue(st.queue, adjacent_vertex, delta)]
                   ELSE st
        IN Relax(st1, idx, current_vertex_index, outgoing, k + 1)

distance_to(destination) == distances[nodes_to_indices(graph.vertices)[destination]]

has_path_to(destination) == distance_to(destination) # INFINITY

\* the while loop of shortest_path_to: the path from destination back to the source
RECURSIVE PathBack(_)
PathBack(current_index) ==
    IF distances[current_index] # 0
    THEN <<graph.vertices[current_index + 1]>> \o PathBack(predecessors[current_index])
    ELSE <<graph.vertices[current_index + 1]>>

Reverse(q) == [k \in 1..Len(q) |-> q[Len(q) + 1 - k]]

shortest_path_to(destination) ==
    Reverse(PathBack(nodes_to_indices(graph.vertices)[destination]))

(***************************************************************************)
(* The interval tree as a state machine                                    *)
(***************************************************************************)
Triple(v) == <<v.low, v.high, v.id>>
Call(t) == [root |-> t.root, count |-> t.count, heap |-> t.heap, err |-> FALSE, ret |-> FALSE]
Fields(c) == [root |-> c.root, count |-> c.count, heap |-> c.heap]
Object(t) == Fields(Collect(t))
NoOp == [op |-> "none", low |-> 0, high |-> 0, id |-> 0, ret |-> "none", result |-> <<>>]
Outcome(t) == IF t.err THEN "raise" ELSE IF t.ret THEN "True" ELSE "False"

(***************************************************************************)
(* Python float arithmetic (IEEE 754 binary64, round to nearest, ties to   *)
(* even) on the non-negative values the betweenness scores take.  A        *)
(* natural number is the sequence of its base-LimbBase digits, least       *)
(* significant first, without leading zero digits.  A float is [m, e] of   *)
(* value m * 2^e: zero is [<<>>, 0], any other float has a mantissa m of   *)
(* exactly MantissaBits bits.                                              *)
(***************************************************************************)
LimbBits == 14
LimbBase == 16384
MantissaBits == 53

RECURSIVE Pow2(_)
Pow2(k) == IF k = 0 THEN 1 ELSE 2 * Pow2(k - 1)

RECURSIVE BitLen(_)
BitLen(x) == IF x = 0 THEN 0 ELSE 1 + BitLen(x \div 2)

RECURSIVE BigTrim(_)
BigTrim(a) == IF Len(a) > 0 /\ a[Len(a)] = 0 THEN BigTrim(SubSeq(a, 1, Len(a) - 1)) ELSE a

RECURSIVE BigOf(_)
BigOf(k) == IF k = 0 THEN <<>> ELSE <<k % LimbBase>> \o BigOf(k \div LimbBase)

Digit(a, k) == IF k <= Len(a) THEN a[k] ELSE 0

RECURSIVE BigAddFrom(_, _, _, _)
BigAddFrom(a, b, k, carry) ==
    IF k > Len(a) /\ k > Len(b) THEN (IF carry = 0 THEN <<>> ELSE <<carry>>)
    ELSE LET t == Digit(a, k) + Digit(b, k) + carry
         IN <<t % LimbBase>> \o BigAddFrom(a, b, k + 1, t \div LimbBase)

BigAdd(a, b) == BigAddFrom(a, b, 1, 0)

\* a times x, for 0 < x < 2^16
RECURSIVE BigMulFrom(_, _, _, _)
BigMulFrom(a, x, k, carry) ==
    IF k > Len(a) THEN BigOf(carry)
    ELSE LET t == a[k] * x + carry
         IN <<t % LimbBase>> \o BigMulFrom(a, x, k + 1, t \div LimbBase)

BigMulSmall(a, x) == BigMulFrom(a, x, 1, 0)

\* quotient and remainder of the digits 1..k of a, after a remainder rem from
\* the digits above them, by x, for 0 < x < 2^16
RECURSIVE BigDivFrom(_, _, _, _)
BigDivFrom(a, x, k, rem) ==
    IF k = 0 THEN [q |-> <<>>, r |-> rem]
    ELSE LET cur == rem * LimbBase + a[k]
             rest == BigDivFrom(a, x, k - 1, cur % x)
         IN [q |-> Append(rest.q, cur \div x), r |-> rest.r]

BigDivSmall(a, x) ==
    LET d == BigDivFrom(a, x, Len(a), 0) IN [q |-> BigTrim(d.q), r |-> d.r]

BigBits(a) == IF Len(a) = 0 THEN 0 ELSE LimbBits * (Len(a) - 1) + BitLen(a[Len(a)])

BigShl(a, n) ==
    IF Len(a) = 0 THEN a
    ELSE [k \in 1..(n \div LimbBits) |-> 0] \o BigMulSmall(a, Pow2(n % LimbBits))

BigShr(a, n) ==
    IF n \div LimbBits >= Len(a) THEN <<>>
    ELSE BigDivSmall(SubSeq(a, n \div LimbBits + 1, Len(a)), Pow2(n % LimbBits)).q

\* is a <= b, comparing the digits k..1 when the higher ones agree
RECURSIVE BigLeqFrom(_, _, _)
BigLeqFrom(a, b, k) ==
    IF k = 0 THEN TRUE
    ELSE IF a[k] # b[k] THEN a[k] < b[k]
    ELSE BigLeqFrom(a, b, k - 1)

BigLeq(a, b) == Len(a) < Len(b) \/ (Len(a) = Len(b) /\ BigLeqFrom(a, b, Len(a)))

FloatZero == [m |-> <<>>, e |-> 0]

\* q plus one when the guard bit is set and the sticky bits or the last bit of
\* q break the tie upwards
RoundUp(q, guard, sticky) ==
    IF guard = 1 /\ (sticky \/ q[1] % 2 = 1) THEN BigAdd(q, <<1>>) ELSE q

\* r * 2^e with a mantissa of MantissaBits bits, r having at most one bit more
Renormalised(r, e) ==
    IF BigBits(r) > MantissaBits THEN [m |-> BigShr(r, 1), e |-> e + 1]
    ELSE [m |-> r, e |-> e]

\* kept is n without its lowest drop - 1 bits: the mantissa and the guard bit
RoundKept(n, kept, drop, e, inexact) ==
    Renormalised(RoundUp(BigShr(kept, 1), kept[1] % 2,
                         inexact \/ BigShl(kept, drop - 1) # n),
                 e + drop)

RoundBits(n, bits, e, inexact) ==
    IF bits = 0 THEN FloatZero
    ELSE IF bits <= MantissaBits
    THEN [m |-> BigShl(n, MantissaBits - bits), e |-> e - (MantissaBits - bits)]
    ELSE RoundKept(n, BigShr(n, bits - MantissaBits - 1), bits - MantissaBits, e, inexact)

\* the float nearest to (n + f) * 2^e, where 0 <= f < 1 and f > 0 iff inexact;
\* an inexact n has more than MantissaBits + 1 bits
RoundToFloat(n, e, inexact) == RoundBits(n, BigBits(n), e, inexact)

\* float(k) of an int k >= 0
Float(k) == RoundToFloat(BigOf(k), 0, FALSE)

FloatOne == Float(1)

Min2(a, b) == IF a <= b THEN a ELSE b

\* x + y
AddAligned(x, y, e) ==
    RoundToFloat(BigAdd(BigShl(x.m, x.e - e), BigShl(y.m, y.e - e)), e, FALSE)

FloatAdd(x, y) ==
    IF Len(x.m) = 0 THEN y
    ELSE IF Len(y.m) = 0 THEN x
    ELSE AddAligned(x, y, Min2(x.e, y.e))

\* k * x of an int k, 0 <= k < 2^16: the int converts to a float exactly
FloatTimes(x, k) ==
    IF k = 0 \/ Len(x.m) = 0 THEN FloatZero
    ELSE RoundToFloat(BigMulSmall(x.m, k), x.e, FALSE)

\* x / k of an int k, 0 < k < 2^16
RoundQuotient(d, e) == RoundToFloat(d.q, e, d.r # 0)

FloatOver(x, k) ==
    IF Len(x.m) = 0 THEN FloatZero
    ELSE RoundQuotient(BigDivSmall(BigShl(x.m, 3 * LimbBits), k), x.e - 3 * LimbBits)

\* x < y
FloatLess(x, y) ==
    IF Len(y.m) = 0 THEN FALSE
    ELSE IF Len(x.m) = 0 THEN TRUE
    ELSE x.e < y.e \/ (x.e = y.e /\ x.m # y.m /\ BigLeq(x.m, y.m))

(***************************************************************************)
(* graph_algorithms.py : CentralitySingleSource                            *)
(***************************************************************************)
NoSubIndices == [given |-> FALSE, indices |-> <<>>]
InSeq(x, q) == \E k \in 1..Len(q) : q[k] = x

\* round(x, 6) of an integer distance
round6(x) == x

_forms_cycle(g, preds, adjacent_index) ==
    \E k \in 1..Len(preds) :
        has_edge(g, g.vertices[preds[k] + 1], g.vertices[adjacent_index + 1])

\* __init__ up to and including _initialize
CentralityInitialize(g, src, vertices_to_indices, radius, sub_indices) ==
    LET count == IF sub_indices.given THEN Len(sub_indices.indices) ELSE Len(g.vertices)
        indices == IF sub_indices.given
                   THEN {sub_indices.indices[k] : k \in 1..count}
                   ELSE 0..(count - 1)
        source_index == vertices_to_indices[src]
    IN [predecessors |-> [i \in indices |-> <<>>],
        distances |-> [[i \in indices |-> INFINITY] EXCEPT ![source_index] = 0],
        queue |-> enqueue(MinPriorityQueue, source_index, 0),
        stack |-> <<>>,
        sigma |-> [[i \in indices |-> 0] EXCEPT ![source_index] = 1],
        delta |-> [i \in indices |-> FloatZero],
        betweenness_score |-> [v \in {g.vertices[i + 1] : i \in indices} |-> FloatZero],
        err |-> FALSE]

\* mutant: the radius is not checked
RECURSIVE CentralityRelax_unbounded(_, _, _, _, _, _, _, _, _)
CentralityRelax_unbounded(st, g, v2i, radius, sub_indices, cur, preds, outgoing, k) ==
    IF k > Len(outgoing) THEN st
    ELSE
        LET edge == outgoing[k]
            adjacent_index == v2i[edge.to_vertex]
            dist == round6(st.distances[cur] + edge.weight)
            skip == \/ sub_indices.given /\ ~InSeq(adjacent_index, sub_indices.indices)
                    \/ InSeq(adjacent_index, st.stack)
                    \/ /\ Len(preds) > 0
                       /\ \/ InSeq(adjacent_index, preds)
                          \/ _forms_cycle(g, preds, adjacent_index)
            st1 == IF skip THEN st
                   ELSE IF dist < st.distances[adjacent_index]
                   THEN [st EXCEPT
                            !.distances[adjacent_index] = dist,
                            !.queue = IF contains(st.queue, adjacent_index)
                                      THEN update_priority(st.queue, adjacent_index, dist)
                                      ELSE enqueue(st.queue, adjacent_index, dist),
                            !.sigma[adjacent_index] = st.sigma[cur],
                            !.predecessors[adjacent_index] = <<cur>>]
                   ELSE IF dist = st.distances[adjacent_index]
                   THEN [st EXCEPT
                            !.sigma[adjacent_index] = @ + st.sigma[cur],
                            !.predecessors[adjacent_index] = Append(@, cur)]
                   ELSE st
        IN CentralityRelax_unbounded(st1, g, v2i, radius, sub_indices, cur, preds, outgoing, k + 1)

\* the for loop of _dijkstra over outgoing_edges[k..]
RECURSIVE CentralityRelax(_, _, _, _, _, _, _, _, _)
CentralityRelax(st, g, v2i, radius, sub_indices, cur, preds, outgoing, k) ==
    IF k > Len(outgoing) THEN st
    ELSE
        LET edge == outgoing[k]
            adjacent_index == v2i[edge.to_vertex]
            dist == round6(st.distances[cur] + edge.weight)
            skip == \/ sub_indices.given /\ ~InSeq(adjacent_index, sub_indices.indices)
                    \/ InSeq(adjacent_index, st.stack)
                    \/ /\ Len(preds) > 0
                       /\ \/ InSeq(adjacent_index, preds)
                          \/ _forms_cycle(g, preds, adjacent_index)
            st1 == IF skip \/ dist > radius THEN st
                   ELSE IF dist < st.distances[adjacent_index]
                   THEN [st EXCEPT
                            !.distances[adjacent_index] = dist,
                            !.queue = IF contains(st.queue, adjacent_index)
                                      THEN update_priority(st.queue, adjacent_index, dist)
                                      ELSE enqueue(st.queue, adjacent_index, dist),
                            !.sigma[adjacent_index] = st.sigma[cur],
                            !.predecessors[adjacent_index] = <<cur>>]
                   ELSE IF dist = st.distances[adjacent_index]
                   THEN [st EXCEPT
                            !.sigma[adjacent_index] = @ + st.sigma[cur],
                            !.predecessors[adjacent_index] = Append(@, cur)]
                   ELSE st
        IN CentralityRelax(st1, g, v2i, radius, sub_indices, cur, preds, outgoing, k + 1)

\* the while loop of CentralitySingleSource._dijkstra
RECURSIVE CentralityDijkstra(_, _, _, _, _)
CentralityDijkstra(st, g, v2i, radius, sub_indices) ==
    IF is_empty(st.queue) THEN st
    ELSE
        LET d == dequeue_min(st.queue) IN
        IF d.err THEN [st EXCEPT !.queue = d.queue, !.err = TRUE]
        ELSE
            LET cur == d.item
                st1 == [st EXCEPT !.queue = d.queue, !.stack = Append(@, cur)]
            IN CentralityDijkstra(
                   CentralityRelax(st1, g, v2i, radius, sub_indices, cur,
                                   st.predecessors[cur],
                                   outgoing_edges(g, g.vertices[cur + 1]), 1),
                   g, v2i, radius, sub_indices)

\* the for loop of _accumulation over the predecessors of the popped vertex
RECURSIVE UpdatePredecessors(_, _, _, _, _)
UpdatePredecessors(delta, sigma, preds, coeff, k) ==
    IF k > Len(preds) THEN delta
    ELSE UpdatePredecessors([delta EXCEPT ![preds[k]] = FloatAdd(@, FloatTimes(coeff, sigma[preds[k]]))],
                            sigma, preds, coeff, k + 1)

RECURSIVE _accumulation(_, _, _)

\* the rest of the loop body once delta holds the updated dependencies
_accumulate_popped(st, g, source_index, cur, delta1) ==
    _accumulation([st EXCEPT !.stack = SubSeq(@, 1, Len(@) - 1),
                             !.delta = delta1,
                             !.betweenness_score =
                                 IF cur # source_index
                                 THEN [@ EXCEPT ![g.vertices[cur + 1]] = FloatAdd(@, delta1[cur])]
                                 ELSE @],
                  g, source_index)

\* coeff = (1 + self._delta[current_index]) / self._sigma[current_index]
_coeff(st, cur) ==
    IF st.sigma[cur] > 0
    THEN FloatOver(FloatAdd(FloatOne, st.delta[cur]), st.sigma[cur])
    ELSE FloatZero

_accumulation(st, g, source_index) ==
    IF Len(st.stack) = 0 THEN st
    ELSE
        LET cur == st.stack[Len(st.stack)] IN
        _accumulate_popped(st, g, source_index, cur,
                           UpdatePredecessors(st.delta, st.sigma, st.predecessors[cur],
                                              _coeff(st, cur), 1))

RECURSIVE SumOver(_, _)
SumOver(f, S) ==
    IF S = {} THEN 0
    ELSE LET x == CHOOSE x \in S : TRUE IN f[x] + SumOver(f, S \ {x})

_get_total_depth(dist) ==
    LET finite == {i \in DOMAIN dist : dist[i] # INFINITY} IN
    [total_depth |-> SumOver(dist, finite), node_count |-> Cardinality(finite)]

\* the attributes of the object after _accumulation and _get_total_depth
SingleSourceScores(st1, st2, depth) ==
    [err |-> FALSE, betweenness_score |-> st2.betweenness_score,
     total_depth_score |-> depth.total_depth, node_count |-> depth.node_count,
     vertices_within_radius |-> st1.stack]

\* __init__ after _dijkstra left the state st1
AfterDijkstra(st0, st1, g, source_index) ==
    IF st1.err
    THEN [err |-> TRUE, betweenness_score |-> st0.betweenness_score,
          total_depth_score |-> 0, node_count |-> 0, vertices_within_radius |-> <<>>]
    ELSE SingleSourceScores(st1, _accumulation(st1, g, source_index),
                            _get_total_depth(st1.distances))

\* __init__ after _initialize left the state st0
AfterInitialize(st0, g, src, vertices_to_indices, radius, sub_indices) ==
    AfterDijkstra(st0, CentralityDijkstra(st0, g, vertices_to_indices, radius, sub_indices),
                  g, vertices_to_indices[src])

\* CentralitySingleSource(...): the finished object, or err when the
\* constructor raised IndexError
CentralitySingleSource(g, src, vertices_to_indices, radius, sub_indices) ==
    AfterInitialize(CentralityInitialize(g, src, vertices_to_indices, radius, sub_indices),
                    g, src, vertices_to_indices, radius, sub_indices)

(***************************************************************************)
(* graph_algorithms.py : CalculateCentrality                               *)
(***************************************************************************)
ParallelThreshold == 30     \* _compute: vertices_count >= 30
max_workers == 30           \* ThreadPoolExecutor(max_workers=30)

\* CalculateCentrality.__init__ before _compute (radius and sub_graphs default)
NewCentrality(g) ==
    [betweenness |-> [v \in {g.vertices[k] : k \in 1..Len(g.vertices)} |-> FloatZero],
     total_depths |-> <<>>,
     node_counts |-> <<>>]

\* for vertex, score in centrality.betweenness_score.items():
\*     self.betweenness[vertex] += score
AddScores(betweenness, betweenness_score) ==
    [v \in DOMAIN betweenness |->
        IF v \in DOMAIN betweenness_score
        THEN FloatAdd(betweenness[v], betweenness_score[v])
        ELSE betweenness[v]]

\* mutant: the score replaces the accumulated value
SequentialAccumulate_overwrite(obj, src, single) ==
    [betweenness |-> [v \in DOMAIN obj.betweenness |->
                         IF v \in DOMAIN single.betweenness_score
                         THEN single.betweenness_score[v] ELSE obj.betweenness[v]],
     total_depths |-> obj.total_depths @@ (src :> single.total_depth_score),
     node_counts |-> obj.node_counts @@ (src :> single.node_count)]

\* the body of the for loop of _compute_sequential after the single-source run
SequentialAccumulate(obj, src, single) ==
    [betweenness |-> AddScores(obj.betweenness, single.betweenness_score),
     total_depths |-> obj.total_depths @@ (src :> single.total_depth_score),
     node_counts |-> obj.node_counts @@ (src :> single.node_count)]

\* mutant: the score replaces the accumulated value
ParallelAccumulate_overwrite(obj, src, single) ==
    [betweenness |-> [v \in DOMAIN obj.betweenness |->
                         IF v \in DOMAIN single.betweenness_score
                         THEN single.betweenness_score[v] ELSE obj.betweenness[v]],
     total_depths |-> obj.total_depths @@ (src :> single.total_depth_score),
     node_counts |-> obj.node_counts @@ (src :> single.node_count)]

\* the body of the as_completed loop of _compute_parallel after future.result()
ParallelAccumulate(obj, src, single) ==
    [betweenness |-> AddScores(obj.betweenness, single.betweenness_score),
     total_depths |-> obj.total_depths @@ (src :> single.total_depth_score),
     node_counts |-> obj.node_counts @@ (src :> single.node_count)]

\* process_vertex(source) of _compute_parallel, and the single-source run of
\* _compute_sequential
process_vertex(g, src) ==
    CentralitySingleSource(g, src, nodes_to_indices(g.vertices), INFINITY, NoSubIndices)

(***************************************************************************)
(* clustering.py : Cluster, ClusterPair, MultiClusters, DissimilarityMatrix *)
(***************************************************************************)
\* Cluster(cluster_id, x, y, z): a singleton; children defaults to [cluster_id]
Cluster(cluster_id, x, y, z) ==
    [id |-> cluster_id, diameter |-> 0, children |-> <<cluster_id>>,
     left_cluster |-> None, right_cluster |-> None, centroid_sum |-> <<x, y, z>>]

\* Cluster(new_cluster_index, diameter=distance, left_cluster=.., right_cluster=..)
\* followed by merged.children = cluster1.children + cluster2.children
MergedCluster(cluster_id, distance, left, right) ==
    [id |-> cluster_id, diameter |-> distance,
     children |-> left.children \o right.children,
     left_cluster |-> left.id, right_cluster |-> right.id,
     centroid_sum |-> <<left.centroid_sum[1] + right.centroid_sum[1],
                        left.centroid_sum[2] + right.centroid_sum[2],
                        left.centroid_sum[3] + right.centroid_sum[3]>>]

ClusterPair(cluster1, cluster2) == [cluster1 |-> cluster1, cluster2 |-> cluster2]

ClusterPair_eq(a, b) ==
    \/ a.cluster1.id = b.cluster1.id /\ a.cluster2.id = b.cluster2.id
    \/ a.cluster1.id = b.cluster2.id /\ a.cluster2.id = b.cluster1.id

\* _distance_matrix is a dict: the sequence of its [pair, dist] items in
\* insertion order
DictFind(items, pair) ==
    IF \E k \in 1..Len(items) : ClusterPair_eq(items[k].pair, pair)
    THEN CHOOSE k \in 1..Len(items) : ClusterPair_eq(items[k].pair, pair)
    ELSE 0

DictRemove(items, pair) == SelectSeq(items, LAMBDA it : ~ClusterPair_eq(it.pair, pair))

DictGet(items, pair, default) ==
    IF DictFind(items, pair) = 0 THEN default ELSE items[DictFind(items, pair)].dist

DictSet(items, pair, dist) ==
    IF DictFind(items, pair) = 0 THEN Append(items, [pair |-> pair, dist |-> dist])
    ELSE [items EXCEPT ![DictFind(items, pair)].dist = dist]

\* the orders in which a set of objects may be iterated
Orders(S) == {q \in [1..Cardinality(S) -> S] : \A j, k \in DOMAIN q : j # k => q[j] # q[k]}

\* DissimilarityMatrix.__init__ with cluster_list = list(clusters)
RECURSIVE BuildMatrix(_, _, _, _, _)
BuildMatrix(items, cluster_list, dm, diam, ij) ==
    LET n == Len(cluster_list)
        i == ij[1]
        j == ij[2]
    IN IF i >= n - 1 /\ j > n - 1 THEN items
       ELSE IF j > n - 1 THEN BuildMatrix(items, cluster_list, dm, diam, <<i + 1, i + 2>>)
       ELSE BuildMatrix(IF dm[i][j] <= diam
                        THEN DictSet(items, ClusterPair(cluster_list[i + 1], cluster_list[j + 1]),
                                     dm[i][j])
                        ELSE items,
                        cluster_list, dm, diam, <<i, j + 1>>)

DissimilarityMatrix(cluster_list, dm, diam) ==
    [_distance_matrix |-> IF Len(cluster_list) < 2 THEN <<>>
                          ELSE BuildMatrix(<<>>, cluster_list, dm, diam, <<0, 1>>),
     _diameter |-> diam]

pairs_count(m) == Len(m._distance_matrix)

\* min(self._distance_matrix.items(), key=lambda x: x[1]): the first least item
get_closest_cluster_pair(m) ==
    LET items == m._distance_matrix
        k == CHOOSE k \in 1..Len(items) :
                 /\ \A j \in 1..Len(items) : items[k].dist <= items[j].dist
                 /\ \A j \in 1..(k - 1) : items[j].dist > items[k].dist
    IN items[k]

\* mutant: single linkage, the least of the two distances
RECURSIVE UpdateDistances_single(_, _, _, _, _, _)
UpdateDistances_single(items, diam, cluster_pair, merged, remaining, k) ==
    IF k > Len(remaining) THEN items
    ELSE
        LET cluster == remaining[k]
            pair1 == ClusterPair(cluster, cluster_pair.cluster1)
            pair2 == ClusterPair(cluster, cluster_pair.cluster2)
            d1 == DictGet(items, pair1, INFINITY)
            d2 == DictGet(DictRemove(items, pair1), pair2, INFINITY)
            popped == DictRemove(DictRemove(items, pair1), pair2)
            complete_dist == Min2(d1, d2)
        IN UpdateDistances_single(IF complete_dist # INFINITY /\ complete_dist <= diam
                                  THEN DictSet(popped, ClusterPair(cluster, merged), complete_dist)
                                  ELSE popped,
                                  diam, cluster_pair, merged, remaining, k + 1)

\* the for loop of update_matrix over the remaining clusters, in iteration order
RECURSIVE UpdateDistances(_, _, _, _, _, _)
UpdateDistances(items, diam, cluster_pair, merged, remaining, k) ==
    IF k > Len(remaining) THEN items
    ELSE
        LET cluster == remaining[k]
            pair1 == ClusterPair(cluster, cluster_pair.cluster1)
            pair2 == ClusterPair(cluster, cluster_pair.cluster2)
            d1 == DictGet(items, pair1, INFINITY)
            d2 == DictGet(DictRemove(items, pair1), pair2, INFINITY)
            popped == DictRemove(DictRemove(items, pair1), pair2)
            complete_dist == Max2(d1, d2)
        IN UpdateDistances(IF complete_dist # INFINITY /\ complete_dist <= diam
                           THEN DictSet(popped, ClusterPair(cluster, merged), complete_dist)
                           ELSE popped,
                           diam, cluster_pair, merged, remaining, k + 1)

\* mutant: the second cluster of the merged pair stays in the active set
update_matrix_keep(m, cs, cluster_pair, index, order) ==
    LET distance == DictGet(m._distance_matrix, cluster_pair, INFINITY)
        merged == MergedCluster(index, distance, cluster_pair.cluster1, cluster_pair.cluster2)
        items1 == DictRemove(m._distance_matrix, cluster_pair)
    IN [matrix |-> [m EXCEPT !._distance_matrix =
                        UpdateDistances(items1, m._diameter, cluster_pair, merged, order, 1)],
        clusters |-> (cs \ {cluster_pair.cluster1}) \cup {merged}]

\* update_matrix; order is the iteration order of the remaining clusters
update_matrix(m, cs, cluster_pair, index, order) ==
    LET distance == DictGet(m._distance_matrix, cluster_pair, INFINITY)
        merged == MergedCluster(index, distance, cluster_pair.cluster1, cluster_pair.cluster2)
        items1 == DictRemove(m._distance_matrix, cluster_pair)
    IN [matrix |-> [m EXCEPT !._distance_matrix =
                        UpdateDistances(items1, m._diameter, cluster_pair, merged, order, 1)],
        clusters |-> (cs \ {cluster_pair.cluster1, cluster_pair.cluster2}) \cup {merged}]

\* merge_overlapping_intervals has not been called
NoMerge ==
    /\ mrg_pc = "idle"
    /\ intervals = <<>>
    /\ sorted_intervals = <<>>
    /\ merged_intervals = <<>>
    /\ mrg_next = 0

\* BrepAddOn.get_area has not been called
NoBrep ==
    /\ br_pc = "idle"
    /\ brep = <<>>
    /\ total_area = 0
    /\ face_area = 0
    /\ br_face = 0
    /\ br_inner = 0

\* polyline_from_vertices has not been called
NoPolyline ==
    /\ poly_pc = "idle"
    /\ flattened_vertices = <<>>
    /\ poly_points = <<>>
    /\ poly_i = 0

NoCall == [op |-> "none", item |-> -1, err |-> FALSE, live |-> <<>>]

\* a new MinPriorityQueue on which nothing was called
NewQueue ==
    /\ pq = MinPriorityQueue
    /\ pq_live = <<>>
    /\ pq_last = NoCall

\* run_multiple_diameters has not been called
NoMulti ==
    /\ diameters = <<>>
    /\ md_results = <<>>
    /\ md_next = 0
    /\ md_created = <<>>

\* CentralitySingleSource has not been called on its own
NoSingleSource ==
    /\ css_pc = "idle"
    /\ css_graph = GraphAdapter(<<>>, <<>>)
    /\ css_source = None
    /\ css_radius = 0
    /\ css = <<>>
    /\ css_current = None
    /\ css_preds = <<>>
    /\ css_edges = <<>>
    /\ css_k = 0
    /\ css_result = <<>>

\* check_polyline_self has not been called
NoSelfCheck ==
    /\ cps_pc = "idle"
    /\ cps_points = <<>>
    /\ cps_i = 0
    /\ cps_j = 0
    /\ cps_result = FALSE
    /\ cps_tested = {}

\* split_by_line_for_outer_loops has not been called
NoSplit ==
    /\ split_pc = "idle"
    /\ split_curves = <<>>
    /\ split_cutter = None
    /\ split_result = <<>>

\* no Voronoi has been constructed
NoVoronoi ==
    /\ vor_pc = "idle"
    /\ sites = <<>>
    /\ vor_bounds = <<>>
    /\ vor_i = 0
    /\ event_queue = <<>>
    /\ beach_root = <<>>
    /\ vor_edges = <<>>

\* make_closed has not been called
NoMakeClosed ==
    /\ mc_pc = "idle"
    /\ mc_points = <<>>
    /\ mc_tolerance = 0
    /\ mc_result = FALSE
    /\ mc_before = <<>>

\* no geometry operation has been called
NoGeo == NoSelfCheck /\ NoSplit /\ NoVoronoi /\ NoMakeClosed

NoOps == NoMerge /\ NoBrep /\ NoPolyline /\ NewQueue /\ NoMulti /\ NoSingleSource /\ NoGeo

NoDijkstra ==
    /\ graph = GraphAdapter(<<>>, <<>>)
    /\ source = None
    /\ dj_pc = "idle"
    /\ distances = <<>>
    /\ predecessors = <<>>
    /\ queue = MinPriorityQueue

NoCentrality ==
    /\ cen_pc = "idle"
    /\ centrality = NewCentrality(GraphAdapter(<<>>, <<>>))
    /\ cen_next = 0
    /\ futures = <<>>
    /\ results = <<>>
    /\ overtaken = FALSE

NoClustering ==
    /\ clu_pc = "idle"
    /\ distance_matrix = <<>>
    /\ diameter = 0
    /\ clusters = {}
    /\ matrix = [_distance_matrix |-> <<>>, _diameter |-> 0]
    /\ new_cluster_index = 0

NewTree ==
    /\ tree = [root |-> Null, count |-> 0, heap |-> <<>>]
    /\ stored = {}
    /\ hadDelete = FALSE
    /\ lastOp = NoOp
    /\ raises = 0

IdleKernel == NewTree /\ NoDijkstra /\ NoCentrality /\ NoClustering

\* nothing outside the geometry operations has been called
IdleButGeo ==
    /\ IdleKernel
    /\ NoMerge
    /\ NoBrep
    /\ NoPolyline
    /\ NewQueue
    /\ NoMulti
    /\ NoSingleSource

InitTree == IdleKernel /\ NoOps

\* the state after insert_interval(iv, i) left the tree as t1
Inserted(t1, iv, i) ==
    /\ raises' = IF t1.err THEN raises + 1 ELSE raises
    /\ tree' = Object(t1)
    /\ stored' = IF ~t1.err /\ t1.ret THEN stored \cup {<<iv.low, iv.high, i>>} ELSE stored
    /\ lastOp' = [op |-> "insert", low |-> iv.low, high |-> iv.high, id |-> i,
                  ret |-> Outcome(t1), result |-> <<>>]

InsertInterval ==
    \E iv \in UInterval, i \in 0..MaxId :
        /\ raises < MaxRaises
        /\ Cardinality(DOMAIN tree.heap) < MaxNodes
        /\ Inserted(insert_interval(Call(tree), iv, i), iv, i)
        /\ UNCHANGED <<hadDelete, nonTreeVars>>

\* the state after delete_interval(iv, i) left the tree as t1
Deleted(t1, iv, i) ==
    /\ tree' = Object(t1)
    /\ stored' = IF t1.ret THEN stored \ {<<iv.low, iv.high, i>>} ELSE stored
    /\ lastOp' = [op |-> "delete", low |-> iv.low, high |-> iv.high, id |-> i,
                  ret |-> Outcome(t1), result |-> <<>>]

DeleteInterval ==
    \E iv \in UInterval, i \in 0..MaxId :
        /\ raises < MaxRaises
        /\ Deleted(delete_interval(Call(tree), iv, i), iv, i)
        /\ hadDelete' = TRUE
        /\ UNCHANGED <<raises, nonTreeVars>>

SearchOverlappingInterval ==
    \E iv \in UInterval :
        /\ raises < MaxRaises
        /\ LET found == search_overlapping_interval(tree, iv) IN
            lastOp' = [op |-> "search", low |-> iv.low, high |-> iv.high, id |-> -1,
                       ret |-> "list",
                       result |-> [k \in 1..Len(found) |-> Triple(found[k])]]
        /\ UNCHANGED <<tree, stored, hadDelete, raises, nonTreeVars>>

\* the state after find_overlapping_interval(iv) returned found
Found(found, iv) ==
    lastOp' = [op |-> "find", low |-> iv.low, high |-> iv.high, id |-> -1,
               ret |-> IF found = <<>> THEN "None" ELSE "node",
               result |-> [k \in 1..Len(found) |-> Triple(found[k])]]

FindOverlappingInterval ==
    \E iv \in UInterval :
        /\ raises < MaxRaises
        /\ Found(find_overlapping_interval(tree, iv), iv)
        /\ UNCHANGED <<tree, stored, hadDelete, raises, nonTreeVars>>

NextTree ==
    InsertInterval \/ DeleteInterval \/ SearchOverlappingInterval \/ FindOverlappingInterval

SpecTree == InitTree /\ [][NextTree]_vars

(***************************************************************************)
(* DijkstraShortestPaths as a state machine                                *)
(***************************************************************************)
NumVertices == 3    \* graphs have the vertices 0..NumVertices-1
MaxEdges == 3       \* graphs have at most MaxEdges edges
MaxWeight == 3      \* edge weights are drawn from -1..MaxWeight

Vertices == [k \in 1..NumVertices |-> k - 1]

\* edge lists without parallel edges or self loops, listed in (from, to) order
PairLess(a, b) ==
    a.from_vertex < b.from_vertex
        \/ (a.from_vertex = b.from_vertex /\ a.to_vertex < b.to_vertex)

EdgeLists ==
    LET E == {DirectedEdge(a, b, w) : a \in 0..(NumVertices - 1),
                                       b \in 0..(NumVertices - 1), w \in -1..MaxWeight} IN
    UNION {{es \in [1..n -> E] :
               /\ \A k \in 1..n : es[k].from_vertex # es[k].to_vertex
               /\ \A k \in 1..(n - 1) : PairLess(es[k], es[k + 1])} : n \in 0..MaxEdges}

InitDijkstra ==
    /\ NewTree
    /\ NoOps
    /\ NoCentrality
    /\ NoClustering
    /\ graph \in {GraphAdapter(Vertices, es) : es \in EdgeLists}
    /\ source \in 0..NumVertices
    /\ dj_pc = "new"
    /\ distances = <<>>
    /\ predecessors = <<>>
    /\ queue = MinPriorityQueue

\* __init__ up to and including _initialize
DijkstraConstruct ==
    /\ dj_pc = "new"
    /\ IF ~has_vertex(graph, source) \/ HasNegativeWeight(graph)
       THEN /\ dj_pc' = "ValueError"
            /\ UNCHANGED <<distances, predecessors, queue>>
       ELSE LET n == Len(graph.vertices)
                source_index == nodes_to_indices(graph.vertices)[source]
            IN /\ distances' = [[i \in 0..(n - 1) |-> INFINITY] EXCEPT ![source_index] = 0]
               /\ predecessors' = [i \in 0..(n - 1) |-> NONE_PREDECESSOR]
               /\ queue' = enqueue(MinPriorityQueue, source, 0)
               /\ dj_pc' = "_dijkstra"
    /\ UNCHANGED <<graph, source, nonDjVars>>

\* one iteration of the while loop of _dijkstra
DijkstraIteration ==
    /\ dj_pc = "_dijkstra"
    /\ ~is_empty(queue)
    /\ LET d == dequeue_min(queue) IN
       IF d.err
       THEN /\ dj_pc' = "IndexError"
            /\ queue' = d.queue
            /\ UNCHANGED <<distances, predecessors>>
       ELSE LET idx == nodes_to_indices(graph.vertices)
                st == Relax([distances |-> distances, predecessors |-> predecessors,
                             queue |-> d.queue],
                            idx, idx[d.item], outgoing_edges(graph, d.item), 1)
            IN /\ distances' = st.distances
               /\ predecessors' = st.predecessors
               /\ queue' = st.queue
               /\ UNCHANGED dj_pc
    /\ UNCHANGED <<graph, source, nonDjVars>>

\* the while loop ends and __init__ returns
DijkstraReturn ==
    /\ dj_pc = "_dijkstra"
    /\ is_empty(queue)
    /\ dj_pc' = "done"
    /\ UNCHANGED <<graph, source, distances, predecessors, queue, nonDjVars>>

NextDijkstra == DijkstraConstruct \/ DijkstraIteration \/ DijkstraReturn

SpecDijkstra == InitDijkstra /\ [][NextDijkstra]_vars

(***************************************************************************)
(* CalculateCentrality as a state machine                                  *)
(***************************************************************************)
MaxInFlight == 2    \* futures running or finished and not yet consumed, at a time

\* the path graph 0-1-2-3-4 with unit weights
PathGraph ==
    GraphAdapter(<<0, 1, 2, 3, 4>>, <<Edge(0, 1, 1), Edge(1, 2, 1), Edge(2, 3, 1), Edge(3, 4, 1)>>)

\* create_sample_graph()
SampleGraph ==
    GraphAdapter(<<0, 1, 2, 3, 4>>,
                 <<Edge(0, 1, 2), Edge(1, 2, 3), Edge(2, 3, 1), Edge(3, 4, 2), Edge(0, 4, 5)>>)

\* vertex 3 is first reached over 0->3 and then found nearer over 0->1->2->3
DetourGraph ==
    GraphAdapter(<<0, 1, 2, 3>>,
                 <<DirectedEdge(0, 1, 1), DirectedEdge(0, 3, 5), DirectedEdge(1, 2, 1),
                   DirectedEdge(2, 3, 1)>>)

LargeVertices == [k \in 1..ParallelThreshold |-> k - 1]

\* two routes 0->1->3 and 0->2->3 of equal weight and a chain 3->4->5, among
\* isolated vertices
LargeGraph ==
    GraphAdapter(LargeVertices,
                 <<Edge(0, 1, 1), Edge(0, 2, 1), Edge(1, 3, 1), Edge(2, 3, 1),
                   Edge(3, 4, 1), Edge(4, 5, 1)>>)

\* DetourGraph among isolated vertices
LargeDetourGraph == GraphAdapter(LargeVertices, DetourGraph.edges)

\* three routes of equal weight from 3 to 0, over 1, 2 and 4, and two more
\* vertices that reach 0 over 1, among isolated vertices
ThirdsGraph ==
    GraphAdapter(LargeVertices,
                 <<DirectedEdge(3, 1, 1), DirectedEdge(3, 2, 1), DirectedEdge(3, 4, 1),
                   DirectedEdge(1, 0, 1), DirectedEdge(2, 0, 1), DirectedEdge(4, 0, 1),
                   DirectedEdge(5, 1, 1), DirectedEdge(6, 1, 1)>>)

CentralityGraphs ==
    {PathGraph, SampleGraph, DetourGraph, LargeGraph, LargeDetourGraph, ThirdsGraph}

InitCentrality ==
    /\ NewTree
    /\ NoOps
    /\ NoClustering
    /\ graph \in CentralityGraphs
    /\ source = None
    /\ dj_pc = "idle"
    /\ distances = <<>>
    /\ predecessors = <<>>
    /\ queue = MinPriorityQueue
    /\ cen_pc = "new"
    /\ centrality = NewCentrality(GraphAdapter(<<>>, <<>>))
    /\ cen_next = 0
    /\ futures = <<>>
    /\ results = <<>>
    /\ overtaken = FALSE

\* __init__ and the dispatch of _compute; the parallel path submits every source
CentralityConstruct ==
    /\ cen_pc = "new"
    /\ centrality' = NewCentrality(graph)
    /\ IF Len(graph.vertices) >= ParallelThreshold
       THEN /\ cen_pc' = "as_completed"
            /\ futures' = [k \in 1..Len(graph.vertices) |-> "queued"]
            /\ UNCHANGED cen_next
       ELSE /\ cen_pc' = "sequential"
            /\ cen_next' = 1
            /\ UNCHANGED futures
    /\ UNCHANGED <<graph, results, overtaken, nonCenVars>>

\* the loop body once the single-source run of src returned single or raised
SequentialStep(src, single) ==
    IF single.err
    THEN /\ cen_pc' = "IndexError"
         /\ UNCHANGED <<centrality, cen_next>>
    ELSE /\ centrality' = SequentialAccumulate(centrality, src, single)
         /\ cen_next' = cen_next + 1
         /\ UNCHANGED cen_pc

\* one iteration of the for loop of _compute_sequential
SequentialIteration ==
    /\ cen_pc = "sequential"
    /\ cen_next <= Len(graph.vertices)
    /\ SequentialStep(graph.vertices[cen_next],
                      process_vertex(graph, graph.vertices[cen_next]))
    /\ UNCHANGED <<graph, futures, results, overtaken, nonCenVars>>

SequentialReturn ==
    /\ cen_pc = "sequential"
    /\ cen_next > Len(graph.vertices)
    /\ cen_pc' = "done"
    /\ UNCHANGED <<graph, centrality, cen_next, futures, results, overtaken, nonCenVars>>

Running == {k \in DOMAIN futures : futures[k] = "running"}
Finished == {k \in DOMAIN futures : futures[k] = "finished"}
InFlight == IF cen_pc = "as_completed" THEN Running \cup Finished ELSE Running

\* a pool thread takes the oldest queued work item
WorkerStart ==
    /\ cen_pc \in {"as_completed", "shutdown"}
    /\ \E k \in DOMAIN futures :
        /\ futures[k] = "queued"
        /\ \A j \in 1..(k - 1) : futures[j] # "queued"
        /\ Cardinality(Running) < max_workers
        /\ Cardinality(InFlight) < MaxInFlight
        /\ futures' = [futures EXCEPT ![k] = "running"]
    /\ UNCHANGED <<graph, cen_pc, centrality, cen_next, results, overtaken, nonCenVars>>

\* process_vertex returns or raises in its pool thread
WorkerFinish ==
    /\ cen_pc \in {"as_completed", "shutdown"}
    /\ \E k \in DOMAIN futures :
        /\ futures[k] = "running"
        /\ futures' = [futures EXCEPT ![k] = "finished"]
        /\ results' = results @@ (k :> process_vertex(graph, graph.vertices[k]))
    /\ UNCHANGED <<graph, cen_pc, centrality, cen_next, overtaken, nonCenVars>>

\* as_completed yields a finished future; future.result() returns or re-raises
MainConsume ==
    /\ cen_pc = "as_completed"
    /\ \E k \in DOMAIN futures :
        /\ futures[k] = "finished"
        /\ futures' = [futures EXCEPT ![k] = "consumed"]
        /\ results' = [j \in DOMAIN results \ {k} |-> results[j]]
        /\ overtaken' = (overtaken \/ \E j \in 1..(k - 1) : futures[j] # "consumed")
        /\ IF results[k].err
           THEN /\ cen_pc' = "shutdown"
                /\ UNCHANGED centrality
           ELSE /\ centrality' = ParallelAccumulate(centrality, graph.vertices[k], results[k])
                /\ UNCHANGED cen_pc
    /\ UNCHANGED <<graph, cen_next, nonCenVars>>

\* every future was consumed: the with block ends and __init__ returns
ParallelReturn ==
    /\ cen_pc = "as_completed"
    /\ \A k \in DOMAIN futures : futures[k] = "consumed"
    /\ cen_pc' = "done"
    /\ UNCHANGED <<graph, centrality, cen_next, futures, results, overtaken, nonCenVars>>

\* mutant: the exception leaves __init__ without waiting for the workers
ShutdownRaise_nowait ==
    /\ cen_pc = "shutdown"
    /\ cen_pc' = "IndexError"
    /\ UNCHANGED <<graph, centrality, cen_next, futures, results, overtaken, nonCenVars>>

\* the with block's shutdown(wait=True) has joined every worker: the exception
\* of the consumed future leaves __init__
ShutdownRaise ==
    /\ cen_pc = "shutdown"
    /\ \A k \in DOMAIN futures : futures[k] \in {"finished", "consumed"}
    /\ cen_pc' = "IndexError"
    /\ UNCHANGED <<graph, centrality, cen_next, futures, results, overtaken, nonCenVars>>

NextCentrality ==
    \/ CentralityConstruct
    \/ SequentialIteration
    \/ SequentialReturn
    \/ WorkerStart
    \/ WorkerFinish
    \/ MainConsume
    \/ ParallelReturn
    \/ ShutdownRaise

SpecCentrality == InitCentrality /\ [][NextCentrality]_vars

(***************************************************************************)
(* CentralitySingleSource(graph, source, vertices_to_indices, radius) as a *)
(* state machine                                                           *)
(***************************************************************************)
MaxSingleWeight == 2    \* edge weights of these graphs are drawn from 1..MaxSingleWeight
MaxSingleRadius == 2    \* a finite radius is drawn from 0..MaxSingleRadius

\* edge lists of one class in any order, without parallel edges or self loops
SingleEdgeLists(class) ==
    UNION {{es \in [1..n -> [from_vertex : 0..(NumVertices - 1),
                              to_vertex : 0..(NumVertices - 1),
                              weight : 1..MaxSingleWeight,
                              class : {class}]] :
               /\ \A k \in 1..n : es[k].from_vertex # es[k].to_vertex
               /\ \A j, k \in 1..n :
                      j # k => \/ es[j].from_vertex # es[k].from_vertex
                               \/ es[j].to_vertex # es[k].to_vertex} : n \in 0..MaxEdges}

\* two routes 0-1-3 and 0-2-3 of equal weight
DiamondGraph ==
    GraphAdapter(<<0, 1, 2, 3>>, <<Edge(0, 1, 1), Edge(0, 2, 1), Edge(1, 3, 1), Edge(2, 3, 1)>>)

SingleSourceGraphs ==
    {GraphAdapter(Vertices, es) : es \in SingleEdgeLists("Edge") \cup SingleEdgeLists("DirectedEdge")}
        \cup {DiamondGraph, DetourGraph}

InitSingleSource ==
    /\ IdleKernel
    /\ NoMerge
    /\ NoBrep
    /\ NoPolyline
    /\ NewQueue
    /\ NoMulti
    /\ NoGeo
    /\ css_pc = "new"
    /\ css_graph \in SingleSourceGraphs
    /\ css_source \in {css_graph.vertices[k] : k \in 1..Len(css_graph.vertices)}
    /\ css_radius \in (0..MaxSingleRadius) \cup {INFINITY}
    /\ css = <<>>
    /\ css_current = None
    /\ css_preds = <<>>
    /\ css_edges = <<>>
    /\ css_k = 0
    /\ css_result = <<>>

\* __init__ up to and including _initialize
SingleConstruct ==
    /\ css_pc = "new"
    /\ css' = CentralityInitialize(css_graph, css_source, nodes_to_indices(css_graph.vertices),
                                   css_radius, NoSubIndices)
    /\ css_pc' = "_dijkstra"
    /\ UNCHANGED <<css_graph, css_source, css_radius, css_current, css_preds, css_edges,
                   css_k, css_result, nonCssVars>>

\* what dequeue_min returned: IndexError, or the vertex whose edges the for
\* loop goes over
Dequeued_css(d) ==
    IF d.err
    THEN /\ css' = [css EXCEPT !.queue = d.queue, !.err = TRUE]
         /\ css_pc' = "IndexError"
         /\ UNCHANGED <<css_current, css_preds, css_edges, css_k>>
    ELSE /\ css' = [css EXCEPT !.queue = d.queue, !.stack = Append(@, d.item)]
         /\ css_current' = d.item
         /\ css_preds' = css.predecessors[d.item]
         /\ css_edges' = outgoing_edges(css_graph, css_graph.vertices[d.item + 1])
         /\ css_k' = 1
         /\ css_pc' = "for"

\* while not is_empty(): dequeue_min, the stack, the outgoing edges, the predecessors
SingleDequeue ==
    /\ css_pc = "_dijkstra"
    /\ ~is_empty(css.queue)
    /\ Dequeued_css(dequeue_min(css.queue))
    /\ UNCHANGED <<css_graph, css_source, css_radius, css_result, nonCssVars>>

\* one iteration of for edge in outgoing_edges
SingleEdge ==
    /\ css_pc = "for"
    /\ css_k <= Len(css_edges)
    /\ css' = CentralityRelax(css, css_graph, nodes_to_indices(css_graph.vertices), css_radius,
                              NoSubIndices, css_current, css_preds, <<css_edges[css_k]>>, 1)
    /\ css_k' = css_k + 1
    /\ UNCHANGED <<css_pc, css_graph, css_source, css_radius, css_current, css_preds,
                   css_edges, css_result, nonCssVars>>

\* the for loop is over
SingleEndFor ==
    /\ css_pc = "for"
    /\ css_k > Len(css_edges)
    /\ css_pc' = "_dijkstra"
    /\ UNCHANGED <<css_graph, css_source, css_radius, css, css_current, css_preds,
                   css_edges, css_k, css_result, nonCssVars>>

\* the queue is empty: vertices_within_radius, _accumulation, _get_total_depth
SingleFinish ==
    /\ css_pc = "_dijkstra"
    /\ is_empty(css.queue)
    /\ css_result' = AfterDijkstra(css, css, css_graph,
                                   nodes_to_indices(css_graph.vertices)[css_source])
    /\ css' = _accumulation(css, css_graph, nodes_to_indices(css_graph.vertices)[css_source])
    /\ css_pc' = "done"
    /\ UNCHANGED <<css_graph, css_source, css_radius, css_current, css_preds, css_edges,
                   css_k, nonCssVars>>

NextSingleSource ==
    SingleConstruct \/ SingleDequeue \/ SingleEdge \/ SingleEndFor \/ SingleFinish

SpecSingleSource == InitSingleSource /\ [][NextSingleSource]_vars

(***************************************************************************)
(* AgglomerativeClustering.run as a state machine                          *)
(***************************************************************************)
NumPoints == 3      \* input points have the ids 0..NumPoints-1
MaxDistance == 3    \* pairwise distances are drawn from 1..MaxDistance

\* symmetric distance matrices with a zero diagonal
DistanceMatrices ==
    {dm \in [0..(NumPoints - 1) -> [0..(NumPoints - 1) -> 0..MaxDistance]] :
        \A i, j \in 0..(NumPoints - 1) :
            /\ dm[i][j] = dm[j][i]
            /\ (dm[i][j] = 0) = (i = j)}

\* the points lie on the x axis
coordinates == [i \in 0..(NumPoints - 1) |-> <<i, 0, 0>>]

InitClustering ==
    /\ NewTree
    /\ NoOps
    /\ NoDijkstra
    /\ NoCentrality
    /\ clu_pc = "run"
    /\ distance_matrix \in DistanceMatrices
    /\ diameter \in 1..(MaxDistance + 1)
    /\ clusters = {}
    /\ matrix = [_distance_matrix |-> <<>>, _diameter |-> 0]
    /\ new_cluster_index = 0

\* run, steps 1 to 3: the singletons, the container and the dissimilarity matrix
CreateSingletons ==
    /\ clu_pc = "run"
    /\ LET singleton_count == NumPoints
           singletons == {Cluster(i, coordinates[i][1], coordinates[i][2], coordinates[i][3]) :
                             i \in 0..(singleton_count - 1)}
       IN /\ clusters' = singletons
          /\ \E cluster_list \in Orders(singletons) :
                 matrix' = DissimilarityMatrix(cluster_list, distance_matrix, diameter)
          /\ new_cluster_index' = singleton_count
    /\ clu_pc' = "_build_hierarchical_clustering"
    /\ UNCHANGED <<distance_matrix, diameter, nonCluVars>>

\* mutant: merges a pair whose distance equals the diameter
MergeClosest_le ==
    /\ clu_pc = "_build_hierarchical_clustering"
    /\ pairs_count(matrix) > 0
    /\ LET closest == get_closest_cluster_pair(matrix) IN
        /\ closest.dist <= diameter
        /\ \E order \in Orders(clusters \ {closest.pair.cluster1, closest.pair.cluster2}) :
              LET u == update_matrix(matrix, clusters, closest.pair, new_cluster_index, order)
              IN /\ matrix' = u.matrix
                 /\ clusters' = u.clusters
        /\ new_cluster_index' = new_cluster_index + 1
    /\ UNCHANGED <<clu_pc, distance_matrix, diameter, nonCluVars>>

\* one iteration of the while loop of _build_hierarchical_clustering that merges
MergeClosest ==
    /\ clu_pc = "_build_hierarchical_clustering"
    /\ pairs_count(matrix) > 0
    /\ LET closest == get_closest_cluster_pair(matrix) IN
        /\ closest.dist < diameter
        /\ \E order \in Orders(clusters \ {closest.pair.cluster1, closest.pair.cluster2}) :
              LET u == update_matrix(matrix, clusters, closest.pair, new_cluster_index, order)
              IN /\ matrix' = u.matrix
                 /\ clusters' = u.clusters
        /\ new_cluster_index' = new_cluster_index + 1
    /\ UNCHANGED <<clu_pc, distance_matrix, diameter, nonCluVars>>

\* the while loop ends (no pair left, or the closest is not below the diameter)
\* and run returns the clusters
ClusteringReturn ==
    /\ clu_pc = "_build_hierarchical_clustering"
    /\ \/ pairs_count(matrix) = 0
       \/ pairs_count(matrix) > 0 /\ get_closest_cluster_pair(matrix).dist >= diameter
    /\ clu_pc' = "done"
    /\ UNCHANGED <<distance_matrix, diameter, clusters, matrix, new_cluster_index, nonCluVars>>

NextClustering == CreateSingletons \/ MergeClosest \/ ClusteringReturn

SpecClustering == InitClustering /\ [][NextClustering]_vars

\* run is one sequential call: a statement that can execute does execute
SpecClusteringFair == SpecClustering /\ WF_vars(NextClustering)

(***************************************************************************)
(* clustering.py : AgglomerativeClustering.run_multiple_diameters          *)
(***************************************************************************)
MaxDiameters == 2   \* the diameters argument holds at most MaxDiameters values

RECURSIVE SortedValues(_)
SortedValues(S) ==
    IF S = {} THEN <<>>
    ELSE <<CHOOSE x \in S : \A y \in S : x <= y>>
         \o SortedValues(S \ {CHOOSE x \in S : \A y \in S : x <= y})

\* mutant: the diameters as given, neither sorted nor made distinct
sorted_set_as_given(q) == q

\* sorted(set(diameters))
sorted_set(q) == SortedValues({q[k] : k \in 1..Len(q)})

\* max(diameters) of a list that is not empty
max_diameter(q) == CHOOSE x \in {q[k] : k \in 1..Len(q)} : \A k \in 1..Len(q) : x >= q[k]

\* distance_matrix.shape[0]
singleton_count(dm) == Cardinality(DOMAIN dm)

\* the singletons of run_multiple_diameters; the points lie on the x axis
Singletons(dm) == {Cluster(i, i, 0, 0) : i \in 0..(singleton_count(dm) - 1)}

\* four points at distance 1 from each other and a fifth at distance 2 from
\* each of them
FivePoints ==
    [i \in 0..4 |-> [j \in 0..4 |-> IF i = j THEN 0 ELSE IF i = 4 \/ j = 4 THEN 2 ELSE 1]]

InitMulti ==
    /\ NewTree
    /\ NoDijkstra
    /\ NoCentrality
    /\ NoMerge
    /\ NoBrep
    /\ NoPolyline
    /\ NewQueue
    /\ NoSingleSource
    /\ NoGeo
    /\ clu_pc = "run_multiple_diameters"
    /\ distance_matrix \in DistanceMatrices
    /\ diameter = 0
    /\ clusters = {}
    /\ matrix = [_distance_matrix |-> <<>>, _diameter |-> 0]
    /\ new_cluster_index = 0
    /\ diameters \in UNION {[1..n -> 1..(MaxDistance + 1)] : n \in 0..MaxDiameters}
    /\ md_results = <<>>
    /\ md_next = 0
    /\ md_created = <<>>

\* the statements before the for loop, with a list of diameters that is not empty
MultiStart ==
    /\ clu_pc = "run_multiple_diameters"
    /\ diameters # <<>>
    /\ diameters' = sorted_set(diameters)
    /\ clusters' = Singletons(distance_matrix)
    /\ md_created' = [k \in 1..singleton_count(distance_matrix) |-> k - 1]
    /\ \E cluster_list \in Orders(Singletons(distance_matrix)) :
           matrix' = DissimilarityMatrix(cluster_list, distance_matrix,
                                         max_diameter(sorted_set(diameters)))
    /\ md_results' = <<>>
    /\ new_cluster_index' = singleton_count(distance_matrix)
    /\ md_next' = 1
    /\ clu_pc' = "for"
    /\ UNCHANGED <<distance_matrix, diameter, nonMdVars>>

\* max(diameters) of the empty list raises ValueError
MultiRaise ==
    /\ clu_pc = "run_multiple_diameters"
    /\ diameters = <<>>
    /\ clusters' = Singletons(distance_matrix)
    /\ md_created' = [k \in 1..singleton_count(distance_matrix) |-> k - 1]
    /\ clu_pc' = "ValueError"
    /\ UNCHANGED <<distance_matrix, diameter, matrix, new_cluster_index, diameters,
                   md_results, md_next, nonMdVars>>

\* for diameter in diameters: the call of _build_hierarchical_clustering
MultiFor ==
    /\ clu_pc = "for"
    /\ md_next <= Len(diameters)
    /\ diameter' = diameters[md_next]
    /\ clu_pc' = "build"
    /\ UNCHANGED <<distance_matrix, clusters, matrix, new_cluster_index, mdVars, nonMdVars>>

\* one iteration of the while loop of _build_hierarchical_clustering that merges
MultiMerge ==
    /\ clu_pc = "build"
    /\ pairs_count(matrix) > 0
    /\ get_closest_cluster_pair(matrix).dist < diameter
    /\ \E order \in Orders(clusters \ {get_closest_cluster_pair(matrix).pair.cluster1,
                                        get_closest_cluster_pair(matrix).pair.cluster2}) :
           /\ matrix' = update_matrix(matrix, clusters, get_closest_cluster_pair(matrix).pair,
                                      new_cluster_index, order).matrix
           /\ clusters' = update_matrix(matrix, clusters, get_closest_cluster_pair(matrix).pair,
                                        new_cluster_index, order).clusters
    /\ new_cluster_index' = new_cluster_index + 1
    /\ md_created' = Append(md_created, new_cluster_index)
    /\ UNCHANGED <<clu_pc, distance_matrix, diameter, diameters, md_results, md_next,
                   nonMdVars>>

\* the while loop ends; results.append(MultiClusters(list(clusters))) and
\* new_cluster_index = clusters.count + singleton_count
MultiSnapshot ==
    /\ clu_pc = "build"
    /\ \/ pairs_count(matrix) = 0
       \/ pairs_count(matrix) > 0 /\ get_closest_cluster_pair(matrix).dist >= diameter
    /\ md_results' = Append(md_results, clusters)
    /\ new_cluster_index' = Cardinality(clusters) + singleton_count(distance_matrix)
    /\ md_next' = md_next + 1
    /\ clu_pc' = "for"
    /\ UNCHANGED <<distance_matrix, diameter, clusters, matrix, diameters, md_created,
                   nonMdVars>>

\* return results
MultiReturn ==
    /\ clu_pc = "for"
    /\ md_next > Len(diameters)
    /\ clu_pc' = "done"
    /\ UNCHANGED <<distance_matrix, diameter, clusters, matrix, new_cluster_index,
                   mdVars, nonMdVars>>

NextMulti == MultiStart \/ MultiRaise \/ MultiFor \/ MultiMerge \/ MultiSnapshot \/ MultiReturn

SpecMulti == InitMulti /\ [][NextMulti]_vars

\* run_multiple_diameters on the five points of FivePoints
InitMultiFive ==
    /\ NewTree
    /\ NoDijkstra
    /\ NoCentrality
    /\ NoMerge
    /\ NoBrep
    /\ NoPolyline
    /\ NewQueue
    /\ NoSingleSource
    /\ NoGeo
    /\ clu_pc = "run_multiple_diameters"
    /\ distance_matrix = FivePoints
    /\ diameter = 0
    /\ clusters = {}
    /\ matrix = [_distance_matrix |-> <<>>, _diameter |-> 0]
    /\ new_cluster_index = 0
    /\ diameters \in UNION {[1..n -> 1..(MaxDistance + 1)] : n \in 0..MaxDiameters}
    /\ md_results = <<>>
    /\ md_next = 0
    /\ md_created = <<>>

SpecMultiFive == InitMultiFive /\ [][NextMulti]_vars

(***************************************************************************)
(* mathematics.py : IntervalTreeOperations.merge_overlapping_intervals     *)
(***************************************************************************)
MaxMergeCoord == 3  \* interval bounds of the merged lists are drawn from 0..MaxMergeCoord
MaxIntervals == 3   \* the merged lists hold at most MaxIntervals intervals

MergeInterval == {iv \in [low : 0..MaxMergeCoord, high : 0..MaxMergeCoord] : iv.low <= iv.high}

\* the list of test_interval_operations
TestIntervals ==
    <<[low |-> 1, high |-> 3], [low |-> 2, high |-> 5], [low |-> 7, high |-> 9],
      [low |-> 8, high |-> 10], [low |-> 12, high |-> 15]>>

\* sorted(intervals, key=lambda x: x.low) is stable: x goes behind every
\* element of the sorted prefix s whose low is not greater
InsertByLow(s, x) ==
    LET n == Cardinality({k \in 1..Len(s) : s[k].low <= x.low})
    IN SubSeq(s, 1, n) \o <<x>> \o SubSeq(s, n + 1, Len(s))

RECURSIVE SortByLow(_, _)
SortByLow(s, rest) ==
    IF Len(rest) = 0 THEN s ELSE SortByLow(InsertByLow(s, Head(rest)), Tail(rest))

\* mutant: the merged interval ends where the current one ends
MergeCurrent_last(m, current) ==
    IF current.low <= m[Len(m)].high
    THEN [m EXCEPT ![Len(m)] = [low |-> @.low, high |-> current.high]]
    ELSE Append(m, current)

\* the body of the for loop over sorted_intervals[1:]
MergeCurrent(m, current) ==
    IF current.low <= m[Len(m)].high
    THEN [m EXCEPT ![Len(m)] = [low |-> @.low, high |-> Max2(@.high, current.high)]]
    ELSE Append(m, current)

\* the for loop from position k of sorted_intervals on
RECURSIVE MergeFrom(_, _, _)
MergeFrom(m, s, k) ==
    IF k > Len(s) THEN m ELSE MergeFrom(MergeCurrent(m, s[k]), s, k + 1)

MergeSorted(s) == MergeFrom(<<s[1]>>, s, 2)

merge_overlapping_intervals(list) ==
    IF Len(list) = 0 THEN <<>> ELSE MergeSorted(SortByLow(<<>>, list))

MergeInputs ==
    {TestIntervals} \cup UNION {[1..n -> MergeInterval] : n \in 0..MaxIntervals}

InitMerge ==
    /\ IdleKernel
    /\ NoBrep
    /\ NoPolyline
    /\ NewQueue
    /\ NoMulti
    /\ NoSingleSource
    /\ NoGeo
    /\ mrg_pc = "new"
    /\ intervals \in MergeInputs
    /\ sorted_intervals = <<>>
    /\ merged_intervals = <<>>
    /\ mrg_next = 0

\* if not intervals: return []; else sort and start merged with the first
MergeStart ==
    /\ mrg_pc = "new"
    /\ IF Len(intervals) = 0
       THEN /\ mrg_pc' = "done"
            /\ UNCHANGED <<sorted_intervals, merged_intervals, mrg_next>>
       ELSE /\ mrg_pc' = "loop"
            /\ sorted_intervals' = SortByLow(<<>>, intervals)
            /\ merged_intervals' = <<SortByLow(<<>>, intervals)[1]>>
            /\ mrg_next' = 2
    /\ UNCHANGED <<intervals, nonMrgVars>>

\* one iteration of the for loop
MergeIteration ==
    /\ mrg_pc = "loop"
    /\ mrg_next <= Len(sorted_intervals)
    /\ merged_intervals' = MergeCurrent(merged_intervals, sorted_intervals[mrg_next])
    /\ mrg_next' = mrg_next + 1
    /\ UNCHANGED <<mrg_pc, intervals, sorted_intervals, nonMrgVars>>

MergeReturn ==
    /\ mrg_pc = "loop"
    /\ mrg_next > Len(sorted_intervals)
    /\ mrg_pc' = "done"
    /\ UNCHANGED <<intervals, sorted_intervals, merged_intervals, mrg_next, nonMrgVars>>

NextMerge == MergeStart \/ MergeIteration \/ MergeReturn

SpecMerge == InitMerge /\ [][NextMerge]_vars

(***************************************************************************)
(* brep_addon.py : BrepLoop, BrepFace, Brep, BrepAddOn.get_area            *)
(* curve_addon.py : CurveAddOn.get_area                                    *)
(* A loop is [points, area]: the number of points its curves contribute to *)
(* to_3d_curve (every curve without its last point), and the value of      *)
(* Polyline.get_area of the closed polyline.                               *)
(***************************************************************************)
MaxFaces == 2       \* a Brep has at most MaxFaces faces
MaxInner == 2       \* a face has at most MaxInner inner loops
MaxArea == 2        \* loop areas are drawn from 1..MaxArea
MaxPoints == 3      \* the curves of a loop contribute at most MaxPoints points

BrepLoop(points, area) == [points |-> points, area |-> area]

BrepFace(outer_loop, inner_loops) == [outer_loop |-> outer_loop, inner_loops |-> inner_loops]

\* BrepLoop.to_3d_curve: None without points, else the points and the first
\* one again; the polyline is its number of points and its area
to_3d_curve(loop) ==
    IF loop.points = 0 THEN [none |-> TRUE, count |-> 0, area |-> 0]
    ELSE [none |-> FALSE, count |-> loop.points + 1, area |-> loop.area]

\* Polyline.is_closed of a polyline whose last point is its first
is_closed(polyline) == ~(polyline.count < 4)

\* CurveAddOn.get_area: err stands for the ValueError
CurveAddOn_get_area(polyline) ==
    IF polyline.count < 2 THEN [err |-> TRUE, area |-> 0]
    ELSE IF ~is_closed(polyline) THEN [err |-> TRUE, area |-> 0]
    ELSE [err |-> FALSE, area |-> polyline.area]

\* Brep.is_valid; every face of the model has an outer loop
Brep_is_valid(b) == Len(b) > 0

BrepLoops ==
    {BrepLoop(n, 0) : n \in 0..(MaxPoints - 1)}
        \cup {BrepLoop(MaxPoints, a) : a \in 1..MaxArea}

BrepFaces ==
    {BrepFace(o, i) : o \in BrepLoops, i \in UNION {[1..n -> BrepLoops] : n \in 0..MaxInner}}

InitBrep ==
    /\ IdleKernel
    /\ NoMerge
    /\ NoPolyline
    /\ NewQueue
    /\ NoMulti
    /\ NoSingleSource
    /\ NoGeo
    /\ br_pc = "new"
    /\ brep \in UNION {[1..n -> BrepFaces] : n \in 0..MaxFaces}
    /\ total_area = 0
    /\ face_area = 0
    /\ br_face = 0
    /\ br_inner = 0

\* the checks of get_area and total_area = 0.0
GetAreaStart ==
    /\ br_pc = "new"
    /\ IF ~Brep_is_valid(brep)
       THEN /\ br_pc' = "ValueError"
            /\ UNCHANGED br_face
       ELSE /\ br_pc' = "face"
            /\ br_face' = 1
    /\ UNCHANGED <<brep, total_area, face_area, br_inner, nonBrepVars>>

\* the outer loop of the face once its curve is known: None adds nothing, a
\* ValueError continues with the next face
OuterLoopArea(outer_curve, a) ==
    IF ~outer_curve.none /\ a.err
    THEN /\ br_face' = br_face + 1
         /\ face_area' = 0
         /\ UNCHANGED <<br_pc, br_inner>>
    ELSE /\ face_area' = IF outer_curve.none THEN 0 ELSE a.area
         /\ br_pc' = "inner"
         /\ br_inner' = 1
         /\ UNCHANGED br_face

\* for face in brep.faces: face_area = 0.0 and the outer loop
FaceOuter ==
    /\ br_pc = "face"
    /\ br_face <= Len(brep)
    /\ OuterLoopArea(to_3d_curve(brep[br_face].outer_loop),
                     CurveAddOn_get_area(to_3d_curve(brep[br_face].outer_loop)))
    /\ UNCHANGED <<brep, total_area, nonBrepVars>>

\* face_area after one inner loop: None and a ValueError leave it as it is
InnerLoopArea(inner_curve, a) ==
    IF inner_curve.none \/ a.err THEN face_area ELSE face_area - a.area

\* one iteration of for inner_loop in face.inner_loops
FaceInner ==
    /\ br_pc = "inner"
    /\ br_inner <= Len(brep[br_face].inner_loops)
    /\ face_area' = InnerLoopArea(to_3d_curve(brep[br_face].inner_loops[br_inner]),
                                  CurveAddOn_get_area(to_3d_curve(brep[br_face].inner_loops[br_inner])))
    /\ br_inner' = br_inner + 1
    /\ UNCHANGED <<br_pc, brep, total_area, br_face, nonBrepVars>>

\* total_area += face_area
FaceDone ==
    /\ br_pc = "inner"
    /\ br_inner > Len(brep[br_face].inner_loops)
    /\ total_area' = total_area + face_area
    /\ br_face' = br_face + 1
    /\ br_pc' = "face"
    /\ UNCHANGED <<brep, face_area, br_inner, nonBrepVars>>

GetAreaReturn ==
    /\ br_pc = "face"
    /\ br_face > Len(brep)
    /\ br_pc' = "done"
    /\ UNCHANGED <<brep, total_area, face_area, br_face, br_inner, nonBrepVars>>

NextBrep == GetAreaStart \/ FaceOuter \/ FaceInner \/ FaceDone \/ GetAreaReturn

SpecBrep == InitBrep /\ [][NextBrep]_vars

(***************************************************************************)
(* advanced.py : CurveOperations.polyline_from_vertices                    *)
(***************************************************************************)
MaxFlat == 10       \* the flattened array holds at most MaxFlat coordinates
MaxValue == 1       \* coordinates are drawn from 0..MaxValue

Point3D(x, y, z) == <<x, y, z>>

InitPolyline ==
    /\ IdleKernel
    /\ NoMerge
    /\ NoBrep
    /\ NewQueue
    /\ NoMulti
    /\ NoSingleSource
    /\ NoGeo
    /\ poly_pc = "loop"
    /\ flattened_vertices \in UNION {[1..n -> 0..MaxValue] : n \in 0..MaxFlat}
    /\ poly_points = <<>>
    /\ poly_i = 0

\* one iteration of for i in range(0, len(flattened_vertices), 3); the list is
\* indexed from 1 here
PolylineIteration ==
    /\ poly_pc = "loop"
    /\ poly_i < Len(flattened_vertices)
    /\ poly_points' = IF poly_i + 2 < Len(flattened_vertices)
                      THEN Append(poly_points, Point3D(flattened_vertices[poly_i + 1],
                                                       flattened_vertices[poly_i + 2],
                                                       flattened_vertices[poly_i + 3]))
                      ELSE poly_points
    /\ poly_i' = poly_i + 3
    /\ UNCHANGED <<poly_pc, flattened_vertices, nonPolyVars>>

\* return Polyline(points)
PolylineReturn ==
    /\ poly_pc = "loop"
    /\ poly_i >= Len(flattened_vertices)
    /\ poly_pc' = "done"
    /\ UNCHANGED <<flattened_vertices, poly_points, poly_i, nonPolyVars>>

NextPolyline == PolylineIteration \/ PolylineReturn

SpecPolyline == InitPolyline /\ [][NextPolyline]_vars

(***************************************************************************)
(* MinPriorityQueue used on its own                                        *)
(***************************************************************************)
MaxItem == 2        \* items are drawn from 0..MaxItem
MaxPriority == 2    \* priorities are drawn from 0..MaxPriority
MaxCounter == 5     \* entries are pushed until _counter is MaxCounter

InitQueue ==
    IdleKernel /\ NoMerge /\ NoBrep /\ NoPolyline /\ NewQueue /\ NoMulti /\ NoSingleSource
        /\ NoGeo

Enqueue ==
    \E item \in 0..MaxItem, priority \in 0..MaxPriority :
        /\ pq.counter < MaxCounter
        /\ pq' = enqueue(pq, item, priority)
        /\ pq_live' = (item :> priority) @@ pq_live
        /\ pq_last' = [op |-> "enqueue", item |-> item, err |-> FALSE, live |-> pq_live]
        /\ UNCHANGED nonPqVars

UpdatePriority ==
    \E item \in 0..MaxItem, priority \in 0..MaxPriority :
        /\ pq.counter < MaxCounter
        /\ pq' = update_priority(pq, item, priority)
        /\ pq_live' = IF item \in DOMAIN pq_live THEN [pq_live EXCEPT ![item] = priority]
                      ELSE pq_live
        /\ pq_last' = [op |-> "update_priority", item |-> item, err |-> FALSE, live |-> pq_live]
        /\ UNCHANGED nonPqVars

\* the state after dequeue_min returned d.item or raised
Dequeued(d) ==
    /\ pq' = d.queue
    /\ pq_live' = [i \in DOMAIN pq_live \ {d.item} |-> pq_live[i]]
    /\ pq_last' = [op |-> "dequeue_min", item |-> d.item, err |-> d.err, live |-> pq_live]

DequeueMin ==
    /\ Dequeued(dequeue_min(pq))
    /\ UNCHANGED nonPqVars

NextQueue == Enqueue \/ UpdatePriority \/ DequeueMin

SpecQueue == InitQueue /\ [][NextQueue]_vars

(***************************************************************************)
(* geometry/intersection_addon.py : IntersectionAddOn.check_polyline_self  *)
(***************************************************************************)
MaxSelfPoints == 5  \* the polyline has at most MaxSelfPoints points
MaxSelfCoord == 1   \* x and y are drawn from 0..MaxSelfCoord, z is 0

\* geometry/utils.py: the dataclass Line has the fields start and end, and
\* the properties direction and length; it has no attribute is_valid
Line(start, end) == [start |-> start, end |-> end]

\* Polyline.is_valid
PolylineIsValid(points) == Len(points) >= 2

\* the list lines check_polyline_self builds, indexed from 1 here
SelfLines(points) == [i \in 1..(Len(points) - 1) |-> Line(points[i], points[i + 1])]

\* line_line, called with two Line objects, up to `if not line_a.is_valid`:
\* every Line lacks is_valid, so that statement raises AttributeError and no
\* statement below it is ever reached
line_line(line_a, line_b) ==
    IF hasattr(line_a, "is_valid") THEN "checked" ELSE "AttributeError"

\* k = i - 1; if k < 0: k = len(lines) - 1
SelfK(i, n) == IF i - 1 < 0 THEN n - 1 ELSE i - 1

InitSelfCheck ==
    /\ IdleButGeo
    /\ NoSplit
    /\ NoVoronoi
    /\ NoMakeClosed
    /\ cps_pc = "check_polyline_self"
    /\ cps_points \in UNION {[1..n -> {Point3D(x, y, 0) : x, y \in 0..MaxSelfCoord}]
                                : n \in 0..MaxSelfPoints}
    /\ cps_i = 0
    /\ cps_j = 0
    /\ cps_result = FALSE
    /\ cps_tested = {}

\* if not polyline.is_valid: raise ValueError
SelfCheckRaise ==
    /\ cps_pc = "check_polyline_self"
    /\ ~PolylineIsValid(cps_points)
    /\ cps_pc' = "ValueError"
    /\ UNCHANGED <<cps_points, cps_i, cps_j, cps_result, cps_tested, nonCpsVars>>

\* the list lines is built
SelfCheckLines ==
    /\ cps_pc = "check_polyline_self"
    /\ PolylineIsValid(cps_points)
    /\ cps_pc' = "for_i"
    /\ cps_i' = 0
    /\ UNCHANGED <<cps_points, cps_j, cps_result, cps_tested, nonCpsVars>>

\* for i in range(len(lines)): the range of j starts at (i + 2) % len(lines)
SelfCheckOuter ==
    /\ cps_pc = "for_i"
    /\ cps_i < Len(SelfLines(cps_points))
    /\ cps_j' = (cps_i + 2) % Len(SelfLines(cps_points))
    /\ cps_pc' = "for_j"
    /\ UNCHANGED <<cps_points, cps_i, cps_result, cps_tested, nonCpsVars>>

\* one iteration of for j in range((i + 2) % len(lines), k, 1)
SelfCheckInner ==
    /\ cps_pc = "for_j"
    /\ cps_j < SelfK(cps_i, Len(SelfLines(cps_points)))
    /\ LET lines == SelfLines(cps_points)
           k == SelfK(cps_i, Len(lines))
           j == IF cps_j >= Len(lines) THEN cps_j % Len(lines) ELSE cps_j
       IN IF j = k
          THEN /\ cps_pc' = "for_i"
               /\ cps_i' = cps_i + 1
               /\ UNCHANGED <<cps_j, cps_tested>>
          ELSE /\ cps_pc' = line_line(lines[cps_i + 1], lines[j + 1])
               /\ cps_tested' = cps_tested \cup {<<cps_i, j>>}
               /\ UNCHANGED <<cps_i, cps_j>>
    /\ UNCHANGED <<cps_points, cps_result, nonCpsVars>>

\* the range of j is exhausted
SelfCheckInnerDone ==
    /\ cps_pc = "for_j"
    /\ cps_j >= SelfK(cps_i, Len(SelfLines(cps_points)))
    /\ cps_pc' = "for_i"
    /\ cps_i' = cps_i + 1
    /\ UNCHANGED <<cps_points, cps_j, cps_result, cps_tested, nonCpsVars>>

\* return False
SelfCheckReturn ==
    /\ cps_pc = "for_i"
    /\ cps_i >= Len(SelfLines(cps_points))
    /\ cps_result' = FALSE
    /\ cps_pc' = "done"
    /\ UNCHANGED <<cps_points, cps_i, cps_j, cps_tested, nonCpsVars>>

NextSelfCheck ==
    \/ SelfCheckRaise
    \/ SelfCheckLines
    \/ SelfCheckOuter
    \/ SelfCheckInner
    \/ SelfCheckInnerDone
    \/ SelfCheckReturn

SpecSelfCheck == InitSelfCheck /\ [][NextSelfCheck]_vars

(***************************************************************************)
(* geometry/brep_addon.py : BrepFaceAddOn.split_by_line_for_outer_loops    *)
(***************************************************************************)
MaxSplitPoints == 5  \* the curve of the outer loop has at most MaxSplitPoints points
MaxSplitCoord == 1   \* x and y are drawn from 0..MaxSplitCoord, z is 0

\* q[:-1]
AllButLast(q) == IF Len(q) = 0 THEN <<>> ELSE SubSeq(q, 1, Len(q) - 1)

\* the list all_points of BrepLoop.to_3d_curve
RECURSIVE AllPoints(_)
AllPoints(curves) ==
    IF curves = <<>> THEN <<>>
    ELSE AllButLast(Head(curves)) \o AllPoints(Tail(curves))

\* BrepLoop.to_3d_curve: the points of the returned polyline, which has at
\* least two; the empty list stands for the result None (no curve, no point)
to_3d_curve_points(curves) ==
    IF curves = <<>> \/ AllPoints(curves) = <<>> THEN <<>>
    ELSE Append(AllPoints(curves), AllPoints(curves)[1])

\* Polyline.is_closed: at least 4 points, the first within 1e-6 of the last
PolylineIsClosed(points) == Len(points) >= 4 /\ points[1] = points[Len(points)]

\* the positional parameters of check_polyline_self(polyline, finite_segments)
CheckPolylineSelfArity == 2

\* what calling a function of `arity` positional parameters with `given`
\* positional arguments does
CallOutcome(arity, given) == IF given > arity THEN "TypeError" ELSE "called"

SplitGrid == {Point3D(x, y, 0) : x, y \in 0..MaxSplitCoord}

InitSplit ==
    /\ IdleButGeo
    /\ NoSelfCheck
    /\ NoVoronoi
    /\ NoMakeClosed
    /\ split_pc = "split_by_line_for_outer_loops"
    /\ split_curves \in {<<>>} \cup
           {<<q>> : q \in UNION {[1..n -> SplitGrid] : n \in 0..MaxSplitPoints}}
    /\ split_cutter \in {Line(a, b) : a, b \in SplitGrid}
    /\ split_result = <<>>

\* face_curve is None: return result, which is empty
SplitNoCurve ==
    /\ split_pc = "split_by_line_for_outer_loops"
    /\ to_3d_curve_points(split_curves) = <<>>
    /\ split_result' = <<>>
    /\ split_pc' = "done"
    /\ UNCHANGED <<split_curves, split_cutter, nonSplitVars>>

\* if not face_curve.is_closed: raise ValueError
SplitNotClosed ==
    /\ split_pc = "split_by_line_for_outer_loops"
    /\ to_3d_curve_points(split_curves) # <<>>
    /\ ~PolylineIsClosed(to_3d_curve_points(split_curves))
    /\ split_pc' = "ValueError"
    /\ UNCHANGED <<split_curves, split_cutter, split_result, nonSplitVars>>

\* IntersectionAddOn.check_polyline_self(face_polyline, tolerance, True): three
\* positional arguments for two parameters
SplitCheckSelf ==
    /\ split_pc = "split_by_line_for_outer_loops"
    /\ to_3d_curve_points(split_curves) # <<>>
    /\ PolylineIsClosed(to_3d_curve_points(split_curves))
    /\ split_pc' = CallOutcome(CheckPolylineSelfArity, 3)
    /\ UNCHANGED <<split_curves, split_cutter, split_result, nonSplitVars>>

NextSplit == SplitNoCurve \/ SplitNotClosed \/ SplitCheckSelf

SpecSplit == InitSplit /\ [][NextSplit]_vars

(***************************************************************************)
(* geometry/clustering.py : VEdge, BeachArc, BeachLine, Voronoi            *)
(***************************************************************************)
MaxSites == 3       \* the diagram has at most MaxSites sites
MaxSiteCoord == 2   \* site coordinates are drawn from 0..MaxSiteCoord

VPoint(x, y) == <<x, y>>

\* VEdge() with left and right set; slope_rise and intercept are never read
VEdge(left, right) ==
    [start |-> None, end |-> None, left |-> left, right |-> right,
     slope |-> None, slope_run |-> 0]

\* BeachArc(site); an edge is named by its position in the list edges
BeachArc(site) ==
    [site |-> site, left_edge |-> None, right_edge |-> None, event |-> None,
     prev |-> None, next |-> None]

\* FortuneSiteEvent.__lt__ compares x; the events of the queue are site
\* events, each named by the position of its site in self.sites
EventKeys(ss) == [k \in 1..Len(ss) |-> ss[k].x]

\* heapq._siftdown, positions counted from 0 as in Python
RECURSIVE SiftDown(_, _, _, _, _)
SiftDown(heap, startpos, pos, newitem, key) ==
    IF pos > startpos /\ key[newitem] < key[heap[((pos - 1) \div 2) + 1]]
    THEN SiftDown([heap EXCEPT ![pos + 1] = heap[((pos - 1) \div 2) + 1]],
                  startpos, (pos - 1) \div 2, newitem, key)
    ELSE [heap EXCEPT ![pos + 1] = newitem]

\* the loop of heapq._siftup: the smaller child moves up until a leaf is hit
RECURSIVE SiftUpLoop(_, _, _)
SiftUpLoop(heap, pos, key) ==
    IF 2 * pos + 1 < Len(heap)
    THEN IF 2 * pos + 2 < Len(heap) /\ ~(key[heap[2 * pos + 2]] < key[heap[2 * pos + 3]])
         THEN SiftUpLoop([heap EXCEPT ![pos + 1] = heap[2 * pos + 3]], 2 * pos + 2, key)
         ELSE SiftUpLoop([heap EXCEPT ![pos + 1] = heap[2 * pos + 2]], 2 * pos + 1, key)
    ELSE <<heap, pos>>

SiftUpEnd(loop, startpos, newitem, key) ==
    SiftDown(loop[1], startpos, loop[2], newitem, key)

\* heapq.heappush(event_queue, item)
heappush_list(heap, item, key) ==
    SiftDown(Append(heap, item), 0, Len(heap), item, key)

\* heapq.heappop(event_queue): the event returned and the list left
heappop_list(heap, key) ==
    IF Len(heap) = 1 THEN [event |-> heap[1], heap |-> <<>>]
    ELSE [event |-> heap[1],
          heap |-> SiftUpEnd(SiftUpLoop([AllButLast(heap) EXCEPT ![1] = heap[Len(heap)]], 0, key),
                             0, heap[Len(heap)], key)]

\* BeachLine._split_arc: the two new edges are appended; the split arc takes
\* them only where it already had an edge
SplitArcEdges(edges, arc, site) ==
    edges \o <<VEdge(arc.site, site), VEdge(site, arc.site)>>
SplitArc(edges, arc) ==
    [arc EXCEPT !.left_edge = IF arc.left_edge # None THEN Len(edges) + 1 ELSE None,
                !.right_edge = IF arc.right_edge # None THEN Len(edges) + 2 ELSE None]

\* Voronoi._clip_edges for one edge
ClipEdge(edge, b) ==
    IF edge.end = None /\ edge.start # None
    THEN IF edge.slope # None
         THEN IF edge.slope_run > 0
              THEN [edge EXCEPT !.end = VPoint(b[3], edge.start[2])]
              ELSE [edge EXCEPT !.end = VPoint(b[1], edge.start[2])]
         ELSE [edge EXCEPT !.end = VPoint(edge.start[1], b[4])]
    ELSE edge
_clip_edges(edges, b) == [k \in 1..Len(edges) |-> ClipEdge(edges[k], b)]

\* Voronoi._build_cells
CellOf(ss, k, edge) ==
    (IF edge.left = k /\ edge.start # None /\ edge.end # None
     THEN <<edge.start, edge.end>> ELSE <<>>)
    \o (IF edge.right = k /\ edge.start # None /\ edge.end # None
        THEN <<edge.start, edge.end>> ELSE <<>>)
RECURSIVE _build_cells(_, _)
_build_cells(ss, edges) ==
    IF edges = <<>> THEN ss
    ELSE _build_cells([k \in 1..Len(ss) |->
                          [ss[k] EXCEPT !.cell = ss[k].cell \o CellOf(ss, k, Head(edges))]],
                      Tail(edges))

FortuneSite(x, y) == [x |-> x, y |-> y, cell |-> <<>>]

InitVoronoi ==
    /\ IdleButGeo
    /\ NoSelfCheck
    /\ NoSplit
    /\ NoMakeClosed
    /\ vor_pc = "_run_fortune_algorithm"
    /\ sites \in UNION {[1..n -> {FortuneSite(x, y) : x, y \in 0..MaxSiteCoord}]
                           : n \in 0..MaxSites}
    /\ vor_bounds = <<-1, -1, MaxSiteCoord + 1, MaxSiteCoord + 1>>
    /\ vor_i = 0
    /\ event_queue = <<>>
    /\ beach_root = <<>>
    /\ vor_edges = <<>>

\* one heapq.heappush(event_queue, FortuneSiteEvent(site))
VoronoiPush ==
    /\ vor_pc = "_run_fortune_algorithm"
    /\ vor_i < Len(sites)
    /\ event_queue' = heappush_list(event_queue, vor_i + 1, EventKeys(sites))
    /\ vor_i' = vor_i + 1
    /\ UNCHANGED <<vor_pc, sites, vor_bounds, beach_root, vor_edges, nonVorVars>>

\* beach_line = BeachLine(); edges = []; deleted = set()
VoronoiBeachLine ==
    /\ vor_pc = "_run_fortune_algorithm"
    /\ vor_i >= Len(sites)
    /\ vor_pc' = "while"
    /\ UNCHANGED <<sites, vor_bounds, vor_i, event_queue, beach_root, vor_edges, nonVorVars>>

\* one pass of while event_queue. _check_circle_event ends in `pass` and
\* pushes nothing, so every event popped is a site event and the pass is
\* add_beach_section; _get_arc_above returns the root.
VoronoiSiteEvent ==
    /\ vor_pc = "while"
    /\ event_queue # <<>>
    /\ event_queue' = heappop_list(event_queue, EventKeys(sites)).heap
    /\ IF beach_root = <<>>
       THEN /\ beach_root' = <<BeachArc(heappop_list(event_queue, EventKeys(sites)).event)>>
            /\ UNCHANGED vor_edges
       ELSE /\ vor_edges' = SplitArcEdges(vor_edges, beach_root[1],
                                          heappop_list(event_queue, EventKeys(sites)).event)
            /\ beach_root' = <<SplitArc(vor_edges, beach_root[1])>>
    /\ UNCHANGED <<vor_pc, sites, vor_bounds, vor_i, nonVorVars>>

\* self._clip_edges(edges)
VoronoiClip ==
    /\ vor_pc = "while"
    /\ event_queue = <<>>
    /\ vor_edges' = _clip_edges(vor_edges, vor_bounds)
    /\ vor_pc' = "_build_cells"
    /\ UNCHANGED <<sites, vor_bounds, vor_i, event_queue, beach_root, nonVorVars>>

\* self._build_cells(edges)
VoronoiBuildCells ==
    /\ vor_pc = "_build_cells"
    /\ sites' = _build_cells(sites, vor_edges)
    /\ vor_pc' = "done"
    /\ UNCHANGED <<vor_bounds, vor_i, event_queue, beach_root, vor_edges, nonVorVars>>

NextVoronoi ==
    \/ VoronoiPush
    \/ VoronoiBeachLine
    \/ VoronoiSiteEvent
    \/ VoronoiClip
    \/ VoronoiBuildCells

SpecVoronoi == InitVoronoi /\ [][NextVoronoi]_vars

(***************************************************************************)
(* geometry/utils.py : Polyline.make_closed                                *)
(***************************************************************************)
MaxClosePoints == 4  \* the polyline has at most MaxClosePoints points
MaxCloseCoord == 1   \* x and y are drawn from 0..MaxCloseCoord, z is 0
MaxTolerance == 1    \* tolerance is drawn from 0..MaxTolerance

\* the square of Point3D.distance_to
DistanceSquared(a, b) ==
    (a[1] - b[1]) * (a[1] - b[1]) + (a[2] - b[2]) * (a[2] - b[2])
        + (a[3] - b[3]) * (a[3] - b[3])

\* self.points[0].distance_to(self.points[-1]) <= tolerance. Between points
\* of integer coordinates the distance is 0 or at least 1, so the tolerance 0
\* also stands for every tolerance below 1, the default 1e-6 among them.
WithinTolerance(points, tolerance) ==
    DistanceSquared(points[1], points[Len(points)]) <= tolerance * tolerance

InitMakeClosed ==
    /\ IdleButGeo
    /\ NoSelfCheck
    /\ NoSplit
    /\ NoVoronoi
    /\ mc_pc = "make_closed"
    /\ mc_points \in UNION {[1..n -> {Point3D(x, y, 0) : x, y \in 0..MaxCloseCoord}]
                               : n \in 0..MaxClosePoints}
    /\ mc_tolerance \in 0..MaxTolerance
    /\ mc_result = FALSE
    /\ mc_before = mc_points

\* if self.is_closed: return True
MakeClosedAlready ==
    /\ mc_pc = "make_closed"
    /\ PolylineIsClosed(mc_points)
    /\ mc_result' = TRUE
    /\ mc_pc' = "done"
    /\ UNCHANGED <<mc_points, mc_tolerance, mc_before, nonMcVars>>

\* if len(self.points) < 3: return False
MakeClosedShort ==
    /\ mc_pc = "make_closed"
    /\ ~PolylineIsClosed(mc_points)
    /\ Len(mc_points) < 3
    /\ mc_result' = FALSE
    /\ mc_pc' = "done"
    /\ UNCHANGED <<mc_points, mc_tolerance, mc_before, nonMcVars>>

\* self.points[-1] = self.points[0]; return True
MakeClosedSnap ==
    /\ mc_pc = "make_closed"
    /\ ~PolylineIsClosed(mc_points)
    /\ Len(mc_points) >= 3
    /\ WithinTolerance(mc_points, mc_tolerance)
    /\ mc_points' = [mc_points EXCEPT ![Len(mc_points)] = mc_points[1]]
    /\ mc_result' = TRUE
    /\ mc_pc' = "done"
    /\ UNCHANGED <<mc_tolerance, mc_before, nonMcVars>>

\* the final return False
MakeClosedFar ==
    /\ mc_pc = "make_closed"
    /\ ~PolylineIsClosed(mc_points)
    /\ Len(mc_points) >= 3
    /\ ~WithinTolerance(mc_points, mc_tolerance)
    /\ mc_result' = FALSE
    /\ mc_pc' = "done"
    /\ UNCHANGED <<mc_points, mc_tolerance, mc_before, nonMcVars>>

NextMakeClosed == MakeClosedAlready \/ MakeClosedShort \/ MakeClosedSnap \/ MakeClosedFar

SpecMakeClosed == InitMakeClosed /\ [][NextMakeClosed]_vars

(***************************************************************************)
(* Properties of the interval tree                                         *)
(***************************************************************************)
LiveNodes == DOMAIN tree.heap
Contents == {Triple(tree.heap[a].value) : a \in LiveNodes}
Overlapping(Q) == {e \in stored : e[1] <= Q.high /\ Q.low <= e[2]}
SeqRange(q) == {q[k] : k \in 1..Len(q)}
NoRepeat(q) == \A j, k \in 1..Len(q) : j # k => q[j] # q[k]
SearchResult(Q) ==
    LET found == search_overlapping_interval(tree, Q) IN [k \in 1..Len(found) |-> Triple(found[k])]
SearchExact(Q, result) == NoRepeat(result) /\ SeqRange(result) = Overlapping(Q)

RECURSIVE SubtreeHighs(_, _)
SubtreeHighs(h, n) ==
    IF n = Null THEN {}
    ELSE {h[n].value.high} \cup SubtreeHighs(h, h[n].left) \cup SubtreeHighs(h, h[n].right)

RECURSIVE SubtreeKeys(_, _)
SubtreeKeys(h, n) ==
    IF n = Null THEN {}
    ELSE {<<h[n].value.low, h[n].value.id>>} \cup SubtreeKeys(h, h[n].left)
             \cup SubtreeKeys(h, h[n].right)

KeyLess(a, b) == a[1] < b[1] \/ (a[1] = b[1] /\ a[2] < b[2])

IsSearchTree ==
    \A a \in LiveNodes :
        LET k == <<tree.heap[a].value.low, tree.heap[a].value.id>> IN
        /\ \A l \in SubtreeKeys(tree.heap, tree.heap[a].left) : KeyLess(l, k)
        /\ \A r \in SubtreeKeys(tree.heap, tree.heap[a].right) : KeyLess(k, r)

\* the numbers of BLACK nodes on the paths from n down to its missing children
RECURSIVE BlackCounts(_, _)
BlackCounts(h, n) ==
    IF n = Null THEN {0}
    ELSE LET own == IF h[n].color = BLACK THEN 1 ELSE 0 IN
         {c + own : c \in BlackCounts(h, h[n].left) \cup BlackCounts(h, h[n].right)}

RootIsBlack == tree.root # Null => tree.heap[tree.root].color = BLACK
NoRedRed ==
    \A a \in LiveNodes :
        (tree.heap[a].color = RED /\ tree.heap[a].parent # Null)
            => tree.heap[tree.heap[a].parent].color = BLACK
BlackBalanced == \A a \in LiveNodes : Cardinality(BlackCounts(tree.heap, a)) = 1

\* C1: with inserts only, search_overlaps(Q) returns exactly the stored entries
\* whose interval overlaps Q (low1 <= high2 and low2 <= high1), each once; the
\* answer depends on the set of stored entries alone, not on the insertion order.
C1_SearchExact ==
    ~hadDelete =>
        /\ \A Q \in UInterval : SearchExact(Q, SearchResult(Q))
        /\ lastOp.op = "search" =>
               SearchExact([low |-> lastOp.low, high |-> lastOp.high], lastOp.result)

C1_Witness ==
    /\ ~hadDelete
    /\ lastOp.op = "search"
    /\ Cardinality(stored) >= 3
    /\ Len(lastOp.result) >= 1
    /\ Len(lastOp.result) < Cardinality(stored)

\* C6: after every successful insert or delete, every node's cached max is the
\* maximum interval.high over the subtree rooted at that node.
C6_MaxCached ==
    (lastOp.op \in {"insert", "delete"} /\ lastOp.ret = "True") =>
        \A a \in LiveNodes :
            /\ tree.heap[a].value.max \in SubtreeHighs(tree.heap, a)
            /\ \A x \in SubtreeHighs(tree.heap, a) : x <= tree.heap[a].value.max

C6_Witness ==
    /\ lastOp.op = "delete"
    /\ lastOp.ret = "True"
    /\ \E a \in LiveNodes : tree.heap[a].value.max > tree.heap[a].value.high
    /\ \E a \in LiveNodes : tree.heap[a].left # Null /\ tree.heap[a].value.max = tree.heap[a].value.high

\* C7: after any sequence of inserts (no deletes) the root is BLACK, no RED node
\* has a RED parent, and all paths from a node to its missing children hold the
\* same number of BLACK nodes.
C7_RedBlack == ~hadDelete => (RootIsBlack /\ NoRedRed /\ BlackBalanced)

C7_Witness ==
    /\ ~hadDelete
    /\ lastOp.op = "insert"
    /\ lastOp.ret = "True"
    /\ Cardinality(LiveNodes) >= 4
    /\ \E a \in LiveNodes : tree.heap[a].color = RED

\* C8: after any interleaving of inserts and deletes every operation completes,
\* the tree is a binary search tree on (low, id) that holds exactly the live
\* intervals, and search_overlaps(Q) returns exactly the live intervals
\* overlapping Q.
C8_DeleteKeepsTreeUsable ==
    /\ lastOp.ret # "raise"
    /\ IsSearchTree
    /\ Contents = stored
    /\ Cardinality(LiveNodes) = Cardinality(stored)
    /\ \A Q \in UInterval : SearchExact(Q, SearchResult(Q))

\* C9: insert_interval returns False and changes nothing when the same
\* (low, high, id) triple is already stored, and returns True and stores the
\* entry for every triple that is not stored.
C9_RejectsExactDuplicatesOnly ==
    [][lastOp'.op = "insert" =>
          LET e == <<lastOp'.low, lastOp'.high, lastOp'.id>> IN
          IF e \in stored
          THEN lastOp'.ret = "False" /\ tree' = tree
          ELSE lastOp'.ret = "True" /\ e \in stored' /\ tree'.count = tree.count + 1]_vars

\* what find_one_overlap may answer for the target Q: a stored entry that
\* overlaps Q, None exactly when no stored entry overlaps Q
FindRight(Q, result) ==
    /\ Len(result) <= 1
    /\ \A k \in 1..Len(result) : result[k] \in Overlapping(Q)
    /\ (result = <<>>) = (Overlapping(Q) = {})
    /\ SearchResult(Q) # <<>> => result # <<>>

FindResult(Q) ==
    [k \in 1..Len(find_overlapping_interval(tree, Q)) |->
        Triple(find_overlapping_interval(tree, Q)[k])]

SetMin(S) == CHOOSE x \in S : \A y \in S : x <= y

\* may a path step from u to v over edge e: one way over a DirectedEdge, both
\* ways over an Edge
Steps(e, u, v) ==
    \/ e.from_vertex = u /\ e.to_vertex = v
    \/ e.class = "Edge" /\ e.from_vertex = v /\ e.to_vertex = u

\* least weight of a path of at most k edges from the source to v (Bellman-Ford)
RECURSIVE TrueDistance(_, _)
TrueDistance(v, k) ==
    IF k = 0 THEN (IF v = source THEN 0 ELSE INFINITY)
    ELSE SetMin({TrueDistance(v, k - 1)} \cup
                {Min2(INFINITY, TrueDistance(u, k - 1) + graph.edges[j].weight) :
                     <<u, j>> \in {p \in (0..(Len(graph.vertices) - 1)) \X (1..Len(graph.edges)) :
                                      Steps(graph.edges[p[2]], p[1], v)}})

VertexSet == {graph.vertices[k] : k \in 1..Len(graph.vertices)}

\* weights of the edges a path may take from u to v
StepWeights(u, v) ==
    {graph.edges[j].weight : j \in {i \in 1..Len(graph.edges) : Steps(graph.edges[i], u, v)}}

RECURSIVE PathWeight(_, _)
PathWeight(path, k) ==
    IF k >= Len(path) THEN 0
    ELSE SetMin(StepWeights(path[k], path[k + 1])) + PathWeight(path, k + 1)

IsPath(path) == \A k \in 1..(Len(path) - 1) : StepWeights(path[k], path[k + 1]) # {}

PositiveWeights == \A k \in 1..Len(graph.edges) : graph.edges[k].weight > 0

\* C2: with strictly positive weights and an existing source the construction
\* completes, distance_to(v) is the least path weight from the source to v
\* (infinity when v is unreachable), and shortest_path_to(v) is a path of
\* existing edges whose weights sum to distance_to(v).
C2_DijkstraCorrect ==
    (dj_pc # "idle" /\ source \in VertexSet /\ PositiveWeights) =>
        /\ dj_pc # "IndexError"
        /\ dj_pc = "done" =>
              \A v \in VertexSet :
                  /\ distance_to(v) = TrueDistance(v, Len(graph.vertices) - 1)
                  /\ has_path_to(v) =>
                        /\ IsPath(shortest_path_to(v))
                        /\ PathWeight(shortest_path_to(v), 1) = distance_to(v)

NonNegativeWeights == \A k \in 1..Len(graph.edges) : graph.edges[k].weight >= 0

\* C15: with non-negative weights (zero included), for every vertex v reachable
\* from the source shortest_path_to(v) starts at the source and ends at v.
C15_PathFromSource ==
    (dj_pc = "done" /\ NonNegativeWeights) =>
        \A v \in VertexSet :
            has_path_to(v) =>
                /\ shortest_path_to(v)[1] = source
                /\ shortest_path_to(v)[Len(shortest_path_to(v))] = v

\* C10: a source that is not a vertex, or any negative edge weight, makes the
\* constructor raise ValueError before any distance is computed.
C10_RejectsBadInput ==
    (dj_pc # "idle" /\ (source \notin VertexSet
                          \/ \E k \in 1..Len(graph.edges) : graph.edges[k].weight < 0)) =>
        /\ dj_pc \in {"new", "ValueError"}
        /\ distances = <<>>
        /\ predecessors = <<>>
        /\ queue = MinPriorityQueue

C10_Witness ==
    /\ dj_pc = "ValueError"
    /\ source \in VertexSet
    /\ Len(graph.edges) >= 2
    /\ graph.edges[1].weight > 0
    /\ graph.edges[2].weight < 0

(***************************************************************************)
(* Properties of CalculateCentrality                                       *)
(***************************************************************************)
\* the single-source scores of every source, by position in graph.vertices
SingleScores == [k \in 1..Len(graph.vertices) |->
                    process_vertex(graph, graph.vertices[k]).betweenness_score]

\* acc after the scores of the sources k, k + 1, ... for v are added to it in turn
RECURSIVE ScoreSum(_, _, _, _)
ScoreSum(acc, scores, v, k) ==
    IF k > Len(scores) THEN acc
    ELSE ScoreSum(FloatAdd(acc, scores[k][v]), scores, v, k + 1)

\* what the for loop of _compute_sequential leaves in betweenness[v]: the
\* scores of the sources added to 0.0 one by one in vertex order
SequentialSum(v) == ScoreSum(FloatZero, SingleScores, v, 1)

\* |x - y| is at most k units in the last place of the smaller of x and y
FloatWithin(x, y, k) ==
    LET e == IF Len(x.m) = 0 THEN y.e ELSE IF Len(y.m) = 0 THEN x.e ELSE Min2(x.e, y.e)
        a == BigShl(x.m, x.e - e)
        b == BigShl(y.m, y.e - e)
    IN BigLeq(a, BigAdd(b, BigOf(k))) /\ BigLeq(b, BigAdd(a, BigOf(k)))

C5_PathGraphMiddle ==
    (cen_pc = "done" /\ graph = PathGraph) =>
        /\ FloatLess(centrality.betweenness[0], centrality.betweenness[2])
        /\ FloatLess(centrality.betweenness[4], centrality.betweenness[2])

C5_Witness ==
    /\ cen_pc = "done"
    /\ graph = PathGraph
    /\ DOMAIN centrality.total_depths = {0, 1, 2, 3, 4}

\* the positions in graph.vertices of the sources whose single-source run raises
RaisingSources ==
    {k \in 1..Len(graph.vertices) : process_vertex(graph, graph.vertices[k]).err}

\* C11: on the concurrent path a worker's exception is never swallowed (the
\* construction does not return normally when some worker raised), and when
\* the exception leaves the constructor a raising worker's future was consumed
\* and every submitted worker has finished.
C11_WorkerExceptionSurfaces ==
    Len(graph.vertices) >= ParallelThreshold =>
        /\ cen_pc = "done" => RaisingSources = {}
        /\ cen_pc = "IndexError" =>
              /\ \A k \in DOMAIN futures : futures[k] \in {"finished", "consumed"}
              /\ \E k \in RaisingSources : futures[k] = "consumed"

C11_Witness ==
    /\ Len(graph.vertices) >= ParallelThreshold
    /\ cen_pc = "IndexError"
    /\ \E k \in DOMAIN futures : futures[k] = "finished"
    /\ \E k \in DOMAIN futures : futures[k] = "consumed" /\ k \notin RaisingSources

(***************************************************************************)
(* Properties of CentralitySingleSource                                    *)
(***************************************************************************)
\* the graph has an edge from u to v: an Edge joins its two ends, a
\* DirectedEdge leads one way
Adjacent(g, u, v) == \E k \in 1..Len(g.edges) : Steps(g.edges[k], u, v)

\* the rule forbids the step to w from a vertex whose predecessor list is preds
Forbidden(g, preds, w) ==
    \/ InSeq(w, preds)
    \/ \E k \in 1..Len(preds) : Adjacent(g, g.vertices[preds[k] + 1], g.vertices[w + 1])

\* an iteration of the for loop over a forbidden edge changes no distance,
\* sigma, predecessor list or queue entry
ForbiddenNotRelaxed ==
    (/\ css_pc = "for"
     /\ css_k <= Len(css_edges)
     /\ css_k' = css_k + 1
     /\ Forbidden(css_graph, css.predecessors[css_current],
                  nodes_to_indices(css_graph.vertices)[css_edges[css_k].to_vertex]))
        => css' = css

FinalPredecessors(pred) ==
    \A w \in DOMAIN pred : \A i \in 1..Len(pred[w]) :
        ~Forbidden(css_graph, pred[pred[w][i]], w)

\* C20: an edge from the current vertex u to a neighbour w is never relaxed
\* when w is already in u's predecessor list or when some predecessor p of u
\* has an edge to w; hence at the end of the run, for every vertex w and every
\* u in pred[w], w is not in pred[u] and no p in pred[u] is adjacent to w.
C20_NoReversal ==
    /\ [][ForbiddenNotRelaxed]_vars
    /\ [](css_pc = "done" => FinalPredecessors(css.predecessors))

\* the run has returned: the vertices on vertices_within_radius are within
\* the radius and node_count is their number
SettledWithin(res, dist, r) ==
    /\ \A k \in 1..Len(res.vertices_within_radius) : dist[res.vertices_within_radius[k]] <= r
    /\ InSeq(nodes_to_indices(css_graph.vertices)[css_source], res.vertices_within_radius)
    /\ res.node_count = Cardinality({res.vertices_within_radius[k] :
                                        k \in 1..Len(res.vertices_within_radius)})
    /\ res.node_count = Len(res.vertices_within_radius)

\* C21: with a finite radius r no vertex is enqueued with a tentative distance
\* above r; every vertex in vertices_within_radius has a distance of at most r,
\* and node_count is the number of vertices settled within the radius, the
\* source included.
C21_WithinRadius ==
    (css_pc \in {"_dijkstra", "for", "done", "IndexError"} /\ css_radius # INFINITY) =>
        /\ \A e \in css.queue.heap : e.priority <= css_radius
        /\ \A i \in DOMAIN css.distances :
               css.distances[i] # INFINITY => css.distances[i] <= css_radius
        /\ css_pc = "done" => SettledWithin(css_result, css.distances, css_radius)

\* a finished run that settled two vertices and left a third, which an edge
\* from a settled vertex reaches only beyond the radius, out
C21_Witness ==
    /\ css_pc = "done"
    /\ css_radius # INFINITY
    /\ css_result.node_count >= 2
    /\ \E k \in 1..Len(css_graph.edges) :
          /\ css.distances[css_graph.edges[k].from_vertex] # INFINITY
          /\ css.distances[css_graph.edges[k].to_vertex] = INFINITY
          /\ css.distances[css_graph.edges[k].from_vertex] + css_graph.edges[k].weight
                 > css_radius

(***************************************************************************)
(* Properties of AgglomerativeClustering                                   *)
(***************************************************************************)
Occurrences(q, x) == Cardinality({k \in 1..Len(q) : q[k] = x})

RECURSIVE TotalSize(_)
TotalSize(cs) ==
    IF cs = {} THEN 0
    ELSE LET c == CHOOSE c \in cs : TRUE IN Len(c.children) + TotalSize(cs \ {c})

\* C3: after the singleton initialisation and after every merge, the children
\* lists of the active clusters partition the input point ids 0..n-1.
C3_Partition ==
    clu_pc \in {"_build_hierarchical_clustering", "done"} =>
        /\ \A i \in 0..(NumPoints - 1) :
               /\ Cardinality({c \in clusters : Occurrences(c.children, i) > 0}) = 1
               /\ \A c \in clusters : Occurrences(c.children, i) <= 1
        /\ \A c \in clusters : \A k \in 1..Len(c.children) : c.children[k] \in 0..(NumPoints - 1)
        /\ TotalSize(clusters) = NumPoints

C3_Witness ==
    /\ clu_pc = "done"
    /\ Cardinality(clusters) = 1
    /\ new_cluster_index = 2 * NumPoints - 1
    /\ \E c \in clusters : Len(c.children) = NumPoints /\ c.right_cluster >= NumPoints

\* the distance the map holds for the pair of a and b, INFINITY for none
DistOf(m, a, b) == DictGet(m._distance_matrix, ClusterPair(a, b), INFINITY)

Mentions(m, c) ==
    \E k \in 1..Len(m._distance_matrix) :
        \/ m._distance_matrix[k].pair.cluster1.id = c.id
        \/ m._distance_matrix[k].pair.cluster2.id = c.id

\* what update_matrix leaves in the map when it merges L and R into M
MergeUpdates(L, R, M) ==
    /\ \A C \in clusters' \ {M} :
          IF /\ DistOf(matrix, C, L) # INFINITY
             /\ DistOf(matrix, C, R) # INFINITY
             /\ Max2(DistOf(matrix, C, L), DistOf(matrix, C, R)) <= matrix._diameter
          THEN DistOf(matrix', C, M) = Max2(DistOf(matrix, C, L), DistOf(matrix, C, R))
          ELSE DistOf(matrix', C, M) = INFINITY
    /\ ~Mentions(matrix', L)
    /\ ~Mentions(matrix', R)

MergedInStep(closest) ==
    MergeUpdates(closest.cluster1, closest.cluster2, CHOOSE m \in clusters' \ clusters : TRUE)

\* C17: when update_matrix merges (L, R) into M, for every remaining active
\* cluster C the map holds d(C, M) = max(d(C, L), d(C, R)) exactly when both
\* were present and the maximum is within the cutoff, no entry for (C, M)
\* otherwise, and no entry that mentions L or R.
C17_CompleteLinkage ==
    [][(clu_pc = "_build_hierarchical_clustering" /\ clusters' # clusters) =>
          MergedInStep(get_closest_cluster_pair(matrix).pair)]_vars

\* after a merge a remaining cluster has an entry with the merged cluster whose
\* distance is above the merged cluster's diameter
C17_Witness ==
    /\ clu_pc = "_build_hierarchical_clustering"
    /\ new_cluster_index > NumPoints
    /\ Cardinality(clusters) >= 2
    /\ \E k \in 1..Len(matrix._distance_matrix) :
          /\ matrix._distance_matrix[k].pair.cluster2.id >= NumPoints
          /\ matrix._distance_matrix[k].dist > matrix._distance_matrix[k].pair.cluster2.diameter

NoPairBelow(m, threshold) ==
    \A k \in 1..Len(m._distance_matrix) : m._distance_matrix[k].dist >= threshold

MergedBelow(cs, threshold) ==
    \A c \in cs : c.left_cluster # None => c.diameter < threshold

\* C18: run terminates; when it returns the dissimilarity map holds no pair
\* whose distance is strictly below the diameter threshold; every merged
\* cluster's diameter is strictly below the threshold.
C18_TerminatesBelowThreshold ==
    /\ <>(clu_pc = "done")
    /\ [](clu_pc = "done" => NoPairBelow(matrix, diameter))
    /\ [](MergedBelow(clusters, diameter))

\* run has returned after a merge, with a pair left at or above the threshold
C18_Witness ==
    /\ clu_pc = "done"
    /\ \E c \in clusters : c.left_cluster # None
    /\ pairs_count(matrix) > 0

\* the children lists of the clusters of cs partition the input point ids
IsPartition(cs) ==
    /\ \A i \in 0..(NumPoints - 1) :
           /\ Cardinality({c \in cs : Occurrences(c.children, i) > 0}) = 1
           /\ \A c \in cs : Occurrences(c.children, i) <= 1
    /\ \A c \in cs : \A k \in 1..Len(c.children) : c.children[k] \in 0..(NumPoints - 1)

Points(c) == {c.children[k] : k \in 1..Len(c.children)}

\* every cluster of fine lies in a single cluster of coarse
Refines(fine, coarse) ==
    /\ \A c \in fine : \E d \in coarse : Points(c) \subseteq Points(d)
    /\ Cardinality(coarse) <= Cardinality(fine)

\* the snapshots taken so far: snapshot k belongs to the k-th least distinct
\* diameter, is a partition, and refines the next
SnapshotsNested(given) ==
    /\ Len(md_results) <= Len(SortedValues(given))
    /\ \A k \in 1..Len(md_results) :
           /\ IsPartition(md_results[k])
           /\ MergedBelow(md_results[k], SortedValues(given)[k])
           /\ k < Len(md_results) => Refines(md_results[k], md_results[k + 1])

\* a step after the first snapshot leaves every snapshot taken as it is
SnapshotsKept ==
    \A k \in 1..Len(md_results) : Len(md_results') >= k /\ md_results'[k] = md_results[k]

\* C19: run_multiple_diameters returns one snapshot per distinct diameter in
\* ascending order; each snapshot is a partition of the input point ids, every
\* cluster of snapshot k is contained in a single cluster of snapshot k+1 (so
\* the cluster count never increases), and merges performed for a later
\* diameter do not change an earlier snapshot.
C19_SnapshotsRefine ==
    /\ [](clu_pc \in {"for", "build", "done"} =>
             SnapshotsNested({diameters[k] : k \in 1..Len(diameters)}))
    /\ [](clu_pc = "done" =>
             Len(md_results) = Cardinality({diameters[k] : k \in 1..Len(diameters)}))
    /\ [][SnapshotsKept]_vars

\* two diameters were given, the second snapshot is coarser than the first,
\* which already holds a merged cluster
C19_Witness ==
    /\ clu_pc = "done"
    /\ Len(md_results) = 2
    /\ Cardinality(md_results[2]) < Cardinality(md_results[1])
    /\ \E c \in md_results[1] : c.left_cluster # None

(***************************************************************************)
(* Properties of merge_overlapping_intervals                               *)
(***************************************************************************)
\* the points of the line are told apart by their doubles 2p: the bounds and
\* the midpoints between neighbouring integers
HalfPoints(list) ==
    IF Len(list) = 0 THEN {}
    ELSE LET highs == {list[k].high : k \in 1..Len(list)}
         IN 0..(2 * (CHOOSE h \in highs : \A g \in highs : g <= h) + 1)

Covers(list, q) == \E k \in 1..Len(list) : 2 * list[k].low <= q /\ q <= 2 * list[k].high

Separated(list) == \A k \in 1..(Len(list) - 1) : list[k + 1].low > list[k].high

\* C12: the returned intervals are sorted by low with each one starting
\* strictly after the previous one ends, they cover exactly the points the
\* inputs cover, the list of test_interval_operations gives
\* [(1,5),(7,10),(12,15)], and merging the result again changes nothing.
C12_MergeCorrect ==
    mrg_pc = "done" =>
        /\ Separated(merged_intervals)
        /\ \A q \in HalfPoints(intervals) : Covers(merged_intervals, q) = Covers(intervals, q)
        /\ \A k \in 1..Len(merged_intervals) : merged_intervals[k].low <= merged_intervals[k].high
        /\ intervals = TestIntervals =>
              merged_intervals = <<[low |-> 1, high |-> 5], [low |-> 7, high |-> 10],
                         [low |-> 12, high |-> 15]>>
        /\ merge_overlapping_intervals(merged_intervals) = merged_intervals
        /\ merged_intervals = merge_overlapping_intervals(intervals)

\* an unsorted input with a nested interval and a gap
C12_Witness ==
    /\ mrg_pc = "done"
    /\ Len(intervals) = 3
    /\ Len(merged_intervals) = 2
    /\ intervals[1].low > intervals[2].low
    /\ \E k \in 1..2 : intervals[k].high > intervals[k + 1].high /\ intervals[k].low < intervals[k + 1].low

(***************************************************************************)
(* Properties of BrepAddOn.get_area                                        *)
(***************************************************************************)
\* the area computation of the loop fails (raises ValueError)
LoopFails(loop) == ~to_3d_curve(loop).none /\ CurveAddOn_get_area(to_3d_curve(loop)).err

\* the area of a loop whose computation does not fail; a loop without a curve
\* has none
LoopArea(loop) ==
    IF to_3d_curve(loop).none THEN 0 ELSE CurveAddOn_get_area(to_3d_curve(loop)).area

RECURSIVE InnerSum(_, _)
InnerSum(loops, k) ==
    IF k > Len(loops) THEN 0 ELSE LoopArea(loops[k]) + InnerSum(loops, k + 1)

FaceFails(face) ==
    \/ LoopFails(face.outer_loop)
    \/ \E k \in 1..Len(face.inner_loops) : LoopFails(face.inner_loops[k])

\* what the face contributes to the total
Contribution(face) ==
    IF FaceFails(face) THEN 0
    ELSE LoopArea(face.outer_loop) - InnerSum(face.inner_loops, 1)

RECURSIVE ContributionSum(_, _)
ContributionSum(faces, k) ==
    IF k > Len(faces) THEN 0 ELSE Contribution(faces[k]) + ContributionSum(faces, k + 1)

\* C13: get_area on a valid Brep does not raise, a face with a failing outer
\* or inner loop contributes 0 to the total and every other face contributes
\* its outer-loop area minus the sum of its inner-loop areas.
C13_FailedFaceContributesZero ==
    /\ (Brep_is_valid(brep) /\ br_pc # "idle") => br_pc # "ValueError"
    /\ br_pc = "done" => total_area = ContributionSum(brep, 1)

(***************************************************************************)
(* Properties of polyline_from_vertices                                    *)
(***************************************************************************)
\* C14: polyline_from_vertices fails when the array length is not divisible
\* by 3 or describes fewer than 3 points: a polyline is only returned for
\* an array of at least 3 whole points, and it holds every coordinate.
C14_RejectsInvalidVertexCount ==
    poly_pc = "done" =>
        /\ Len(flattened_vertices) % 3 = 0
        /\ Len(poly_points) >= 3
        /\ 3 * Len(poly_points) = Len(flattened_vertices)

(***************************************************************************)
(* Properties of MinPriorityQueue                                          *)
(***************************************************************************)
\* C16: after any sequence of enqueue, update_priority and dequeue_min, a
\* dequeue_min on a queue with live items returns a live item whose last
\* assigned priority is least among the live items; the returned item is no
\* longer in the queue (it is not returned again, and no stale entry of it is
\* returned later), and the queue holds exactly the live items.
C16_DequeueMinLive ==
    /\ \A i \in 0..MaxItem : contains(pq, i) = (i \in DOMAIN pq_live)
    /\ (pq_last.op = "dequeue_min" /\ DOMAIN pq_last.live # {}) =>
          /\ ~pq_last.err
          /\ pq_last.item \in DOMAIN pq_last.live
          /\ \A j \in DOMAIN pq_last.live : pq_last.live[pq_last.item] <= pq_last.live[j]
          /\ pq_last.item \notin DOMAIN pq_live
    /\ (pq_last.op = "dequeue_min" /\ ~pq_last.err) => pq_last.item \in DOMAIN pq_last.live

\* a dequeue_min among several live items of different priorities, on a queue
\* that holds stale entries
C16_Witness ==
    /\ pq_last.op = "dequeue_min"
    /\ ~pq_last.err
    /\ Cardinality(DOMAIN pq_last.live) >= 2
    /\ \E e \in pq.heap : e.item = None
    /\ pq.counter >= Cardinality(DOMAIN pq_last.live) + 2
    /\ \E j \in DOMAIN pq_last.live : pq_last.live[j] > pq_last.live[pq_last.item]

(***************************************************************************)
(* Properties of check_polyline_self                                       *)
(***************************************************************************)
Cross(o, a, b) == (a[1] - o[1]) * (b[2] - o[2]) - (a[2] - o[2]) * (b[1] - o[1])
Sign(x) == IF x > 0 THEN 1 ELSE IF x < 0 THEN -1 ELSE 0
Between(p, a, b) ==
    /\ Min2(a[1], b[1]) <= p[1] /\ p[1] <= Max2(a[1], b[1])
    /\ Min2(a[2], b[2]) <= p[2] /\ p[2] <= Max2(a[2], b[2])
\* the segments a and b of the plane z = 0 have a point in common
SegmentsMeet(a, b) ==
    \/ /\ Sign(Cross(a.start, a.end, b.start)) # Sign(Cross(a.start, a.end, b.end))
       /\ Sign(Cross(b.start, b.end, a.start)) # Sign(Cross(b.start, b.end, a.end))
    \/ Cross(a.start, a.end, b.start) = 0 /\ Between(b.start, a.start, a.end)
    \/ Cross(a.start, a.end, b.end) = 0 /\ Between(b.end, a.start, a.end)
    \/ Cross(b.start, b.end, a.start) = 0 /\ Between(a.start, b.start, b.end)
    \/ Cross(b.start, b.end, a.end) = 0 /\ Between(a.end, b.start, b.end)
\* Polyline.is_closed on integer coordinates
SelfClosed(points) == Len(points) >= 4 /\ points[1] = points[Len(points)]
\* the pairs of segments (numbered from 0) that share no endpoint
ApartPairs(points) ==
    {p \in (0..(Len(points) - 2)) \X (0..(Len(points) - 2)) :
        /\ p[1] + 1 < p[2]
        /\ ~(SelfClosed(points) /\ p[1] = 0 /\ p[2] = Len(points) - 2)}
SelfIntersects(points) ==
    \E p \in ApartPairs(points) :
        SegmentsMeet(SelfLines(points)[p[1] + 1], SelfLines(points)[p[2] + 1])

\* C23: check_polyline_self returns, every pair of segments that share no
\* endpoint is tested before it returns False, and it returns True exactly
\* when one such pair intersects
C23_SelfIntersection ==
    /\ cps_pc # "AttributeError"
    /\ cps_pc = "done" =>
        /\ cps_result = SelfIntersects(cps_points)
        /\ ~cps_result =>
            \A p \in ApartPairs(cps_points) :
                <<p[1], p[2]>> \in cps_tested \/ <<p[2], p[1]>> \in cps_tested

(***************************************************************************)
(* Properties of split_by_line_for_outer_loops                             *)
(***************************************************************************)
\* the boundary vertices: face_polyline.points[:-1]
FacePoints == AllButLast(to_3d_curve_points(split_curves))
BoundaryLine(i) ==
    Line(FacePoints[i], FacePoints[IF i = Len(FacePoints) THEN 1 ELSE i + 1])
Parallel(a, b) ==
    (a.end[1] - a.start[1]) * (b.end[2] - b.start[2])
        = (a.end[2] - a.start[2]) * (b.end[1] - b.start[1])
\* the boundary segments the cutter crosses
Crossed ==
    {i \in 1..Len(FacePoints) :
        SegmentsMeet(BoundaryLine(i), split_cutter) /\ ~Parallel(BoundaryLine(i), split_cutter)}
\* a face whose outer loop is a closed polyline that does not meet itself
SimpleFace ==
    /\ to_3d_curve_points(split_curves) # <<>>
    /\ PolylineIsClosed(to_3d_curve_points(split_curves))
    /\ ~SelfIntersects(to_3d_curve_points(split_curves))
TwoClosedLoops(result) ==
    /\ Len(result) = 2
    /\ \A k \in 1..2 : result[k][1] = result[k][Len(result[k])]
    /\ \A i \in 1..Len(FacePoints) :
          \E k \in 1..2 :
              /\ Occurrences(result[k], FacePoints[i]) >= 1
              /\ Occurrences(result[3 - k], FacePoints[i]) = 0

\* C24: for a face with a simple closed outer loop, split_by_line_for_outer_loops
\* returns the face curve alone when the cutter crosses fewer than 2 boundary
\* segments, raises ValueError when it crosses more than 2, and otherwise
\* returns two closed polylines that share out the boundary vertices
C24_SplitOuterLoop ==
    (SimpleFace /\ split_pc \notin {"idle", "split_by_line_for_outer_loops"}) =>
        IF Cardinality(Crossed) < 2
        THEN split_pc = "done" /\ split_result = <<to_3d_curve_points(split_curves)>>
        ELSE IF Cardinality(Crossed) > 2
        THEN split_pc = "ValueError"
        ELSE split_pc = "done" /\ TwoClosedLoops(split_result)

(***************************************************************************)
(* Properties of GraphAdapter                                              *)
(***************************************************************************)
\* C25: an Edge of the adapter's graph is returned by outgoing_edges of both
\* its endpoints and has_edge holds both ways; a DirectedEdge is returned by
\* outgoing_edges of its from_vertex only
C25_UndirectedSymmetric ==
    \A k \in 1..Len(css_graph.edges) :
        LET e == css_graph.edges[k] IN
        IF e.class = "Edge"
        THEN /\ e \in SeqRange(outgoing_edges(css_graph, e.from_vertex))
             /\ e \in SeqRange(outgoing_edges(css_graph, e.to_vertex))
             /\ has_edge(css_graph, e.from_vertex, e.to_vertex)
             /\ has_edge(css_graph, e.to_vertex, e.from_vertex)
        ELSE /\ e \in SeqRange(outgoing_edges(css_graph, e.from_vertex))
             /\ e \notin SeqRange(outgoing_edges(css_graph, e.to_vertex))

(***************************************************************************)
(* Properties of Voronoi                                                   *)
(***************************************************************************)
\* C26: when the sweep has ended every emitted edge has an end point and its
\* two endpoints are in the cells of its left and right sites
C26_EdgesFinalized ==
    vor_pc = "done" =>
        \A k \in 1..Len(vor_edges) :
            /\ vor_edges[k].end # None
            /\ vor_edges[k].start \in SeqRange(sites[vor_edges[k].left].cell)
            /\ vor_edges[k].end \in SeqRange(sites[vor_edges[k].left].cell)
            /\ vor_edges[k].start \in SeqRange(sites[vor_edges[k].right].cell)
            /\ vor_edges[k].end \in SeqRange(sites[vor_edges[k].right].cell)

(***************************************************************************)
(* Properties of is_empty in the main loops                                *)
(***************************************************************************)
\* the queue holds an entry whose item has not been superseded
HasLiveItem(q) == \E e \in q.heap : e.item # None

\* C27: is_empty is True exactly when no live item is queued, and the
\* construction of DijkstraShortestPaths never raises "Priority queue is
\* empty" for a graph with non-negative weights and an existing source
C27_IsEmptyExact ==
    (dj_pc # "idle" /\ source \in VertexSet /\ ~HasNegativeWeight(graph)) =>
        /\ is_empty(queue) <=> ~HasLiveItem(queue)
        /\ dj_pc # "IndexError"

(***************************************************************************)
(* Properties of DissimilarityMatrix.__init__                              *)
(***************************************************************************)
\* C28: before the first merge, the dissimilarity stored for the singletons
\* with ids i and j is distance_matrix[i][j]
C28_InitialById ==
    (clu_pc = "_build_hierarchical_clustering" /\ Cardinality(clusters) = NumPoints) =>
        \A a, b \in clusters :
            (a.id # b.id /\ DistOf(matrix, a, b) # INFINITY) =>
                DistOf(matrix, a, b) = distance_matrix[a.id][b.id]

(***************************************************************************)
(* Properties of the cluster ids of run_multiple_diameters                 *)
(***************************************************************************)
\* C29: no two clusters created by run_multiple_diameters, singleton or
\* merged, in whatever round, have the same id
C29_UniqueIds == NoRepeat(md_created)

(***************************************************************************)
(* Properties of Polyline.make_closed                                      *)
(***************************************************************************)
\* C30: when make_closed returns True the polyline is closed, and when it
\* returns False the points are those it was called with
C30_ClosedAfterTrue ==
    mc_pc = "done" =>
        /\ mc_result => PolylineIsClosed(mc_points)
        /\ ~mc_result => mc_points = mc_before

====
